---- MODULE Spec2Model ----
(***************************************************************************)
(* Verification model of the Axiomeer marketplace (ujjwalredd/Axiomeer).   *)
(*                                                                         *)
(* The specifications of this module share its variables:                  *)
(*   SpecRouter    the ranking function recommend() of core/router.py      *)
(*   SpecSales     the sales agent of llm/sales_agent.py with its LLM calls *)
(*   Spec          the HTTP handlers of apps/api/main.py over the database *)
(*   SpecTrust     _trust_scores_by_app over a ledger of runs              *)
(*   SpecRate      check_rate_limit of auth/rate_limiter.py over time      *)
(*   SpecHttp      execute_http of core/executor.py with its retries       *)
(*   SpecCaps      extract_capabilities of core/cap_extractor.py           *)
(*   SpecValidate  validate_output of core/validate.py                     *)
(*   SpecOllama    ollama_generate of llm/ollama_client.py                 *)
(*   SpecCache     cache_get and cache_set of core/cache.py                *)
(*   SpecAuth      the API key endpoints of apps/api/auth_routes.py        *)
(*   SpecGate      /shop and /execute behind check_user_rate_limit         *)
(*                                                                         *)
(* Python values are represented as follows.  An optional value is a       *)
(* sequence: << >> is None and <<v>> is the value v.  Floats in [0,1] are   *)
(* fixed-point integers in units of 1/SCALE.  Money is in mills (1/1000    *)
(* USD).  A JSON value is a record with a field "t" naming its type.       *)
(***************************************************************************)
EXTENDS Integers, Sequences, FiniteSets, TLC

VARIABLES
    rReq,       \* router: the ShopRequest given to recommend()
    rApps,      \* router: the list of app dicts given to recommend()
    rOut,       \* router: what recommend() returned or raised, NoCall before
    sCands,     \* sales agent: the candidates given to sales_recommendation()
    sPc,        \* sales agent: the stage sales_recommendation() is at
    sPayload,   \* sales agent: the parsed payload in hand (None: none)
    sCalls,     \* sales agent: the LLM calls made so far, in order
    sLastErr,   \* sales agent: last_error, the message of the failed parse
    sOut,       \* sales agent: what sales_recommendation() returned or raised
    authEnabled, \* settings: AUTH_ENABLED, read once at import
    catalog,    \* database: the rows of table "apps"
    runs,       \* database: the rows of table "runs", in insertion order
    usage,      \* database: the number of rows of table "usage_records"
    messages,   \* database: the rows of table "conversation_messages"
    nCalls,     \* API: the number of handler invocations so far
    call,       \* API: the last invocation: handler, request, environment
    resp,       \* API: what the last invocation returned or raised
    settings,   \* rate limiter: RATE_LIMIT_ENABLED and the tier limits of settings.py
    now,        \* rate limiter: the clock, in minutes
    rate_limits, \* rate limiter: the rows of table "rate_limits"
    admitted,   \* rate limiter: history of the calls check_rate_limit let through
    rlCall,     \* rate limiter: the last call of check_rate_limit
    rlResp,     \* rate limiter: what the last call returned or raised
    fnArgs,     \* function under study: its arguments
    fnOut,      \* function under study: what it returned or raised, NoCall before
    _redis_client, \* cache: TRUE when the module global holds a client, FALSE for None
    _memory_store, \* cache: the in-memory dict, key -> optional entry
    redisUrl,   \* cache environment: REDIS_URL is set
    redisUp,    \* cache environment: the Redis server answers
    redisData,  \* cache environment: the keys held by the Redis server
    clock,      \* cache: time.time(), in seconds
    lastSet,    \* cache: history, per key the last cache_set with ttl > 0
    cacheCall,  \* cache: the last call of cache_get or cache_set
    cacheOut,   \* cache: what the last call returned
    api_keys,   \* database: the rows of table "api_keys", in insertion order
    akCall,     \* auth: the last request to an authenticated endpoint
    akResp      \* auth: what the last request returned or raised

routerVars == <<rReq, rApps, rOut>>
salesVars == <<sCands, sPc, sPayload, sCalls, sLastErr, sOut>>
apiVars == <<authEnabled, catalog, runs, usage, messages, nCalls, call, resp>>
rlVars == <<settings, now, rate_limits, admitted, rlCall, rlResp>>
fnVars == <<fnArgs, fnOut>>
cacheVars == <<_redis_client, _memory_store, redisUrl, redisUp, redisData, clock,
               lastSet, cacheCall, cacheOut>>
authVars == <<api_keys, akCall, akResp>>
vars == <<rReq, rApps, rOut, sCands, sPc, sPayload, sCalls, sLastErr, sOut,
          authEnabled, catalog, runs, usage, messages, nCalls, call, resp,
          settings, now, rate_limits, admitted, rlCall, rlResp, fnArgs, fnOut,
          _redis_client, _memory_store, redisUrl, redisUp, redisData, clock,
          lastSet, cacheCall, cacheOut, api_keys, akCall, akResp>>

NoneV == << >>
Some(v) == <<v>>
IsNone(o) == o = << >>
Val(o) == o[1]

NoCall == [kind |-> "nocall"]

(***************************************************************************)
(* Fixed-point arithmetic                                                  *)
(***************************************************************************)
SCALE == 100000

Min(a, b) == IF a < b THEN a ELSE b
Max(a, b) == IF a > b THEN a ELSE b
Clamp01(x) == Max(0, Min(SCALE, x))

(***************************************************************************)
(* settings.py                                                             *)
(***************************************************************************)
W_CAP == 70       \* hundredths
W_LAT == 20
W_COST == 10
W_TRUST == 15
W_REL == 25
MIN_CAP_COVERAGE == (100 * SCALE) \div 100     \* 1.0
MIN_RELEVANCE_SCORE == (8 * SCALE) \div 100    \* 0.08
MIN_TOTAL_SCORE == (55 * SCALE) \div 100       \* 0.55

(***************************************************************************)
(* core/router.py                                                          *)
(***************************************************************************)

\* c.strip().lower() on the capability strings that occur in the model
NormCapStr(c) ==
    CASE c = "Weather " -> "weather"
      [] c = " " -> ""
      [] OTHER -> c

\* _norm_capabilities: strip and lower each tag, drop the blank ones
_norm_capabilities(caps) == {NormCapStr(c) : c \in {x \in caps : NormCapStr(x) # ""}}

\* _capability_match: coverage of the required capabilities
_capability_match(required, app_caps) ==
    IF required = {} THEN SCALE
    ELSE (Cardinality(required \cap app_caps) * SCALE) \div Cardinality(required)

\* _latency_score: [kind |-> "ok", v |-> score] or ZeroDivisionError when
\* max_ms = 1 (the divisor max_ms - 1 is 0)
_latency_score(lat_ms, max_ms) ==
    LET lat == Max(1, lat_ms) IN
    IF ~IsNone(max_ms) /\ Val(max_ms) # 0 /\ Val(max_ms) > 0
    THEN IF Val(max_ms) - 1 = 0
         THEN [kind |-> "raise", exc |-> "ZeroDivisionError"]
         ELSE [kind |-> "ok",
               v |-> Clamp01(SCALE - ((lat - 1) * SCALE) \div (Val(max_ms) - 1))]
    ELSE [kind |-> "ok", v |-> (500 * SCALE) \div (500 + lat)]

\* _cost_score: cost and max_cost in mills
_cost_score(cost_in, max_cost) ==
    LET cost == Max(0, cost_in) IN
    IF ~IsNone(max_cost)
    THEN IF Val(max_cost) = 0
         THEN (IF cost = 0 THEN SCALE ELSE 0)
         ELSE Clamp01(SCALE - (cost * SCALE) \div Val(max_cost))
    ELSE (1000 * SCALE) \div (1000 + cost)

\* mutant of PassesHardFilters: the latency comparison is inverted
PassesHardFilters_LatencyInverted(c, a) ==
    /\ ~(~IsNone(c.freshness) /\ a.freshness # Val(c.freshness))
    /\ ~(c.citations_required /\ ~a.citations_supported)
    /\ ~(~IsNone(c.max_latency_ms) /\ a.latency_est_ms < Val(c.max_latency_ms))
    /\ ~(~IsNone(c.max_cost_usd) /\ a.cost_est_usd > Val(c.max_cost_usd))

\* the hard filters of recommend(): TRUE when app a is kept
PassesHardFilters(c, a) ==
    /\ ~(~IsNone(c.freshness) /\ a.freshness # Val(c.freshness))
    /\ ~(c.citations_required /\ ~a.citations_supported)
    /\ ~(~IsNone(c.max_latency_ms) /\ a.latency_est_ms > Val(c.max_latency_ms))
    /\ ~(~IsNone(c.max_cost_usd) /\ a.cost_est_usd > Val(c.max_cost_usd))

\* the indices of apps that pass the hard filters, in list order
RECURSIVE FilterIdx(_, _, _)
FilterIdx(c, apps, i) ==
    IF i > Len(apps) THEN << >>
    ELSE IF PassesHardFilters(c, apps[i])
         THEN <<i>> \o FilterIdx(c, apps, i + 1)
         ELSE FilterIdx(c, apps, i + 1)

\* the trust of an app dict: 0.5 when trust_score is None, clamped to [0,1]
TrustOf(a) == IF IsNone(a.trust_score) THEN SCALE \div 2 ELSE Clamp01(Val(a.trust_score))

\* one entry of the list "scored", or the marker "skip" for a candidate the
\* soft thresholds drop; rel is the candidate's relevance score
ScoreOne(req, a, rel, lat) ==
    LET required == _norm_capabilities(req.required_capabilities)
        cap == _capability_match(required, _norm_capabilities(a.capabilities))
        cost == _cost_score(a.cost_est_usd, req.constraints.max_cost_usd)
        trust == TrustOf(a)
        total_weight == W_CAP + W_LAT + W_COST + W_TRUST + W_REL
        score == ((W_CAP * cap) + (W_LAT * lat) + (W_COST * cost)
                  + (W_TRUST * trust) + (W_REL * rel)) \div total_weight
    IN IF required # {} /\ cap < MIN_CAP_COVERAGE THEN [kind |-> "skip"]
       ELSE IF rel < MIN_RELEVANCE_SCORE THEN [kind |-> "skip"]
       ELSE [kind |-> "scored", app_id |-> a.id, score |-> score, cap |-> cap,
             lat |-> lat, cost |-> cost, trust |-> trust, rel |-> rel]

\* the scoring loop over the filtered candidates from position j on: the list
\* "scored", or a raise as soon as _latency_score raises
RECURSIVE ScoreLoop(_, _, _, _, _)
ScoreLoop(req, apps, idx, rels, j) ==
    IF j > Len(idx) THEN [kind |-> "ok", scored |-> << >>]
    ELSE LET a == apps[idx[j]]
             lat == _latency_score(a.latency_est_ms, req.constraints.max_latency_ms)
         IN IF lat.kind = "raise" THEN lat
            ELSE LET one == ScoreOne(req, a, rels[idx[j]], lat.v)
                     rest == ScoreLoop(req, apps, idx, rels, j + 1)
                 IN IF rest.kind = "raise" THEN rest
                    ELSE [kind |-> "ok",
                          scored |-> (IF one.kind = "skip" THEN << >> ELSE <<one>>)
                                     \o rest.scored]

\* insert x behind every entry whose score is at least x.score
RECURSIVE InsertDesc(_, _)
InsertDesc(s, x) ==
    IF s = << >> THEN <<x>>
    ELSE IF Head(s).score >= x.score THEN <<Head(s)>> \o InsertDesc(Tail(s), x)
         ELSE <<x>> \o s

\* mutant of SortDesc: the list is left in input order
SortDesc_Unsorted(s) == s

\* scored.sort(key=score, reverse=True): stable, descending
RECURSIVE SortDesc(_)
SortDesc(s) ==
    IF s = << >> THEN << >>
    ELSE InsertDesc(SortDesc(SubSeq(s, 1, Len(s) - 1)), s[Len(s)])

Take(s, k) == SubSeq(s, 1, Min(k, Len(s)))

\* mutant of recommend: the MIN_TOTAL_SCORE check is left out
recommend_NoTotalBar(req, apps, k, rels) ==
    LET idx == FilterIdx(req.constraints, apps, 1)
        required == _norm_capabilities(req.required_capabilities)
    IN IF idx = << >> THEN [kind |-> "ok", recs |-> << >>, reasons |-> << >>]
       ELSE LET loop == ScoreLoop(req, apps, idx, rels, 1) IN
            IF loop.kind = "raise" THEN loop
            ELSE IF loop.scored = << >>
                 THEN [kind |-> "ok", recs |-> << >>,
                       reasons |-> <<IF required # {} THEN "min_capability_coverage"
                                     ELSE "min_relevance_score">>]
                 ELSE [kind |-> "ok", recs |-> Take(SortDesc(loop.scored), k),
                       reasons |-> << >>]

\* recommend(req, apps, k); rels[i] is the TF-IDF cosine of the task and the
\* document of apps[i], a value of [0,1] that _cosine clamps
recommend(req, apps, k, rels) ==
    LET idx == FilterIdx(req.constraints, apps, 1)
        required == _norm_capabilities(req.required_capabilities)
    IN IF idx = << >> THEN [kind |-> "ok", recs |-> << >>, reasons |-> << >>]
       ELSE LET loop == ScoreLoop(req, apps, idx, rels, 1) IN
            IF loop.kind = "raise" THEN loop
            ELSE IF loop.scored = << >>
                 THEN [kind |-> "ok", recs |-> << >>,
                       reasons |-> <<IF required # {} THEN "min_capability_coverage"
                                     ELSE "min_relevance_score">>]
                 ELSE LET sorted == SortDesc(loop.scored) IN
                      IF sorted[1].score < MIN_TOTAL_SCORE
                      THEN [kind |-> "ok", recs |-> << >>,
                            reasons |-> <<"top_score_below_minimum">>]
                      ELSE [kind |-> "ok", recs |-> Take(sorted, k), reasons |-> << >>]

(***************************************************************************)
(* Strings and JSON values                                                 *)
(*                                                                         *)
(* A string is a sequence of one-character strings, so that strip(),       *)
(* lower(), substring tests and the label normalisation are computed.      *)
(***************************************************************************)
JStr(s) == [t |-> "str", s |-> s]
JNull == [t |-> "null"]                      \* JSON null, Python None
JNum == [t |-> "num"]                        \* some JSON number
JList(l) == [t |-> "list", l |-> l]
JObj(f) == [t |-> "obj", f |-> f]            \* f: a function from keys to values

IsStr(v) == v.t = "str"

\* dict.get(key, default)
GetDefault(obj, key, default) == IF key \in DOMAIN obj.f THEN obj.f[key] ELSE default

\* str.lower() on one character
LowerChar(c) ==
    CASE c = "A" -> "a" [] c = "B" -> "b" [] c = "C" -> "c" [] c = "D" -> "d"
      [] c = "E" -> "e" [] c = "F" -> "f" [] c = "G" -> "g" [] c = "H" -> "h"
      [] c = "I" -> "i" [] c = "J" -> "j" [] c = "K" -> "k" [] c = "L" -> "l"
      [] c = "M" -> "m" [] c = "N" -> "n" [] c = "O" -> "o" [] c = "P" -> "p"
      [] c = "Q" -> "q" [] c = "R" -> "r" [] c = "S" -> "s" [] c = "T" -> "t"
      [] c = "U" -> "u" [] c = "V" -> "v" [] c = "W" -> "w" [] c = "X" -> "x"
      [] c = "Y" -> "y" [] c = "Z" -> "z"
      [] OTHER -> c

Lower(s) == [i \in 1..Len(s) |-> LowerChar(s[i])]

IsSpace(c) == c = " "

RECURSIVE LStrip(_)
LStrip(s) == IF s # << >> /\ IsSpace(Head(s)) THEN LStrip(Tail(s)) ELSE s

RECURSIVE RStrip(_)
RStrip(s) ==
    IF s # << >> /\ IsSpace(s[Len(s)]) THEN RStrip(SubSeq(s, 1, Len(s) - 1)) ELSE s

\* str.strip()
Strip(s) == RStrip(LStrip(s))

\* sub in s
Contains(sub, s) ==
    \E i \in 1..(Len(s) - Len(sub) + 1) : SubSeq(s, i, i + Len(sub) - 1) = sub

LowerAlnum == {"a", "b", "c", "h", "l", "m", "n", "o", "q", "r", "s", "t", "x", "z",
               "0", "1", "2", "3", "4", "5", "6", "7", "8", "9"}

RECURSIVE KeepAlnum(_)
KeepAlnum(s) ==
    IF s = << >> THEN << >>
    ELSE (IF Head(s) \in LowerAlnum THEN <<Head(s)>> ELSE << >>) \o KeepAlnum(Tail(s))

(***************************************************************************)
(* llm/sales_agent.py: _parse_sales_payload                                *)
(***************************************************************************)
NO_MATCH == <<"N", "O", "_", "M", "A", "T", "C", "H">>

\* _normalize_label: re.sub(r"[^a-z0-9]+", "", value.lower())
_normalize_label(value) == KeepAlnum(Lower(value))

\* dict.get(key): JSON null when the key is missing
Get(obj, key) == IF key \in DOMAIN obj.f THEN obj.f[key] ELSE JNull

\* _coerce_choice: unwrap a nested object or a singleton list
RECURSIVE _coerce_choice(_)
_coerce_choice(value) ==
    CASE value.t = "str" -> value
      [] value.t = "obj" ->
            IF "app_id" \in DOMAIN value.f THEN _coerce_choice(value.f["app_id"])
            ELSE IF "id" \in DOMAIN value.f THEN _coerce_choice(value.f["id"])
            ELSE IF "name" \in DOMAIN value.f THEN _coerce_choice(value.f["name"])
            ELSE IF Cardinality(DOMAIN value.f) = 1
                 THEN _coerce_choice(value.f[CHOOSE k \in DOMAIN value.f : TRUE])
                 ELSE JNull
      [] value.t = "list" ->
            IF Len(value.l) = 1 THEN _coerce_choice(value.l[1]) ELSE JNull
      [] OTHER -> value

\* valid_ids: the truthy app ids of the candidates
ValidIds(candidates) ==
    {candidates[i].app_id : i \in {j \in 1..Len(candidates) : candidates[j].app_id # << >>}}

\* the loop that builds name_map and collisions, from candidate i on;
\* name_map is a set of <<key, app_id>> pairs with one pair per key
RECURSIVE NameLoop(_, _, _, _)
NameLoop(candidates, i, name_map, collisions) ==
    IF i > Len(candidates) THEN [name_map |-> name_map, collisions |-> collisions]
    ELSE LET key == _normalize_label(candidates[i].name)
             app_id == candidates[i].app_id
         IN IF key = << >> THEN NameLoop(candidates, i + 1, name_map, collisions)
            ELSE IF \E p \in name_map : p[1] = key /\ p[2] # app_id
                 THEN NameLoop(candidates, i + 1, name_map, collisions \cup {key})
                 ELSE NameLoop(candidates, i + 1,
                               {p \in name_map : p[1] # key} \cup {<<key, app_id>>},
                               collisions)

\* name_map after the colliding keys are popped
NameMap(candidates) ==
    LET r == NameLoop(candidates, 1, {}, {})
    IN {p \in r.name_map : p[1] \notin r.collisions}

\* _resolve_app_id: None, or the candidate id the value resolves to
_resolve_app_id(value, valid_ids, name_map) ==
    IF ~IsStr(value) THEN NoneV
    ELSE LET candidate == Strip(value.s)
             lowered == Lower(candidate)
             matches == {vid \in valid_ids : Contains(vid, lowered)}
             norm == _normalize_label(candidate)
         IN IF candidate = << >> THEN NoneV
            ELSE IF candidate \in valid_ids THEN Some(candidate)
            ELSE IF lowered \in valid_ids THEN Some(lowered)
            ELSE IF Cardinality(matches) = 1 THEN Some(CHOOSE m \in matches : TRUE)
            ELSE IF \E p \in name_map : p[1] = norm
                 THEN Some((CHOOSE p \in name_map : p[1] = norm)[2])
                 ELSE NoneV

\* candidate_map.get(app_id, {}): the last candidate with that id
CandidateOf(candidates, app_id) ==
    LET js == {j \in 1..Len(candidates) : candidates[j].app_id = app_id}
    IN IF js = {} THEN NoneV
       ELSE Some(candidates[CHOOSE j \in js : \A k \in js : k <= j])

\* a usable text: a string that is not blank
IsText(v) == IsStr(v) /\ Strip(v.s) # << >>

\* the rationale synthesised from the candidate's attributes: the list of
\* rationale_bits (empty: no rationale can be built)
RationaleBits(c) ==
    IF IsNone(c) THEN << >>
    ELSE (IF Val(c).capabilities # << >> THEN <<"Capabilities">> ELSE << >>)
         \o (IF ~IsNone(Val(c).freshness) THEN <<"Freshness">> ELSE << >>)
         \o (IF Val(c).citations_supported THEN <<"Supports citations">> ELSE << >>)

\* the tradeoff synthesised from the candidate's attributes
TradeoffBits(c) ==
    IF IsNone(c) THEN << >>
    ELSE (IF ~IsNone(Val(c).latency_est_ms) THEN <<"Estimated latency">> ELSE << >>)
         \o (IF ~IsNone(Val(c).cost_est_usd) THEN <<"Estimated cost">> ELSE << >>)

Err(msg) == [kind |-> "raise", exc |-> "SalesAgentError", msg |-> msg]

\* the largest recommendation list _parse_sales_payload accepts
MaxRecommendations == 3

\* len(recommendations) > 3
TooMany(n) == n > MaxRecommendations

\* mutant of IsDuplicate: the duplicate check is gone
IsDuplicate_Never(resolved_app_id, seen) == FALSE

\* resolved_app_id in seen
IsDuplicate(resolved_app_id, seen) == resolved_app_id \in seen

\* the loop over the recommendations from entry i on: a raise, or the list
\* parsed_recs (with "seen" the ids of the entries before i)
RECURSIVE RecLoop(_, _, _, _, _, _)
RecLoop(recs, i, candidates, valid_ids, name_map, seen) ==
    IF i > Len(recs) THEN [kind |-> "ok", parsed |-> << >>]
    ELSE LET rec == recs[i] IN
         IF rec.t # "obj" THEN Err("sales_agent_invalid_recommendation_entry")
         ELSE LET resolved == _resolve_app_id(_coerce_choice(Get(rec, "app_id")),
                                              valid_ids, name_map)
              IN IF IsNone(resolved) THEN Err("sales_agent_invalid_app_id")
                 ELSE IF IsDuplicate(Val(resolved), seen)
                      THEN Err("sales_agent_duplicate_app_id")
                 ELSE LET cand == CandidateOf(candidates, Val(resolved))
                          r0 == Get(rec, "rationale")
                          t0 == Get(rec, "tradeoff")
                          rationale == IF IsText(r0) THEN Some(Strip(r0.s))
                                       ELSE IF RationaleBits(cand) # << >>
                                            THEN Some(RationaleBits(cand)) ELSE NoneV
                          tradeoff == IF IsText(t0) THEN Some(Strip(t0.s))
                                      ELSE IF TradeoffBits(cand) # << >>
                                           THEN Some(TradeoffBits(cand)) ELSE NoneV
                      IN IF IsNone(rationale) THEN Err("sales_agent_invalid_rationale")
                         ELSE IF IsNone(tradeoff) THEN Err("sales_agent_invalid_tradeoff")
                         ELSE LET rest == RecLoop(recs, i + 1, candidates, valid_ids,
                                                  name_map, seen \cup {Val(resolved)})
                              IN IF rest.kind = "raise" THEN rest
                                 ELSE [kind |-> "ok",
                                       parsed |-> <<[app_id |-> Val(resolved),
                                                     rationale |-> Val(rationale),
                                                     tradeoff |-> Val(tradeoff)]>>
                                                  \o rest.parsed]

\* _parse_sales_payload(payload, candidates): the returned dict or the
\* SalesAgentError raised
_parse_sales_payload(payload, candidates) ==
    LET summary == Get(payload, "summary")
        coerced == _coerce_choice(Get(payload, "final_choice"))
        final_choice == IF IsText(coerced) THEN coerced ELSE JNull
        recommendations == Get(payload, "recommendations")
        valid_ids == ValidIds(candidates)
        name_map == NameMap(candidates)
    IN IF ~IsText(summary) THEN Err("sales_agent_invalid_summary")
       ELSE IF recommendations.t # "list" THEN Err("sales_agent_invalid_recommendations")
       ELSE IF final_choice = JStr(NO_MATCH)
            THEN IF recommendations.l # << >>
                 THEN Err("sales_agent_no_match_with_recommendations")
                 ELSE [kind |-> "return", summary |-> Strip(summary.s),
                       final_choice |-> NO_MATCH, recommendations |-> << >>]
       ELSE IF recommendations.l = << >> THEN Err("sales_agent_missing_recommendations")
       ELSE IF TooMany(Len(recommendations.l))
            THEN Err("sales_agent_too_many_recommendations")
       ELSE LET resolved_final == _resolve_app_id(final_choice, valid_ids, name_map)
                loop == RecLoop(recommendations.l, 1, candidates, valid_ids, name_map, {})
            IN IF loop.kind = "raise" THEN loop
               ELSE IF loop.parsed = << >> THEN Err("sales_agent_missing_recommendations")
               ELSE LET seen == {loop.parsed[i].app_id : i \in 1..Len(loop.parsed)}
                        final == IF IsNone(resolved_final) \/ Val(resolved_final) \notin seen
                                 THEN loop.parsed[1].app_id
                                 ELSE Val(resolved_final)
                    IN [kind |-> "return", summary |-> Strip(summary.s),
                        final_choice |-> final, recommendations |-> loop.parsed]

(***************************************************************************)
(* llm/ollama_client.py and the stages of sales_recommendation             *)
(***************************************************************************)

\* ollama_generate under one behaviour of the backend: the text returned or
\* the exception raised.  raise_for_status() and r.json() are outside the
\* two except clauses, so their exceptions leave the function as they are.
ollama_generate(beh) ==
    CASE beh.b = "connection_error" ->
            [kind |-> "raise", exc |-> "OllamaConnectionError", msg |-> "cannot_connect"]
      [] beh.b = "timeout" ->
            [kind |-> "raise", exc |-> "OllamaConnectionError", msg |-> "timed_out"]
      [] beh.b = "http_error" -> [kind |-> "raise", exc |-> "HTTPError", msg |-> "http_status"]
      [] beh.b = "bad_body" -> [kind |-> "raise", exc |-> "JSONDecodeError", msg |-> "bad_body"]
      [] OTHER -> [kind |-> "return", raw |-> beh.raw]

\* _safe_json_load: the dict the text parses to, None for text that holds no
\* JSON object
_safe_json_load(raw) == IF raw.t = "json" THEN Some(raw.p) ELSE NoneV

\* the outcome of one LLM call followed by _safe_json_load: "raise" with the
\* exception, or "payload" with the optional dict
CallAndLoad(beh) ==
    LET r == ollama_generate(beh)
    IN IF r.kind = "raise" THEN r
       ELSE [kind |-> "payload", payload |-> _safe_json_load(r.raw)]

(***************************************************************************)
(* core/cap_extractor.py                                                   *)
(***************************************************************************)
Tag_citations == <<"c", "i", "t", "a", "t", "i", "o", "n", "s">>
Tag_realtime == <<"r", "e", "a", "l", "t", "i", "m", "e">>

ALLOWED_CAPS ==
    {<<"w", "e", "a", "t", "h", "e", "r">>,
     <<"f", "i", "n", "a", "n", "c", "e">>, <<"s", "e", "a", "r", "c", "h">>,
     <<"r", "e", "a", "l", "t", "i", "m", "e">>,
     <<"c", "i", "t", "a", "t", "i", "o", "n", "s">>, <<"m", "a", "t", "h">>,
     <<"c", "o", "d", "i", "n", "g">>, <<"d", "o", "c", "s">>,
     <<"s", "u", "m", "m", "a", "r", "i", "z", "e">>,
     <<"t", "r", "a", "n", "s", "l", "a", "t", "e">>}

\* DOMAIN_KEYWORDS, in the order the dict is iterated
DOMAIN_KEYWORDS ==
    <<[cap |-> <<"w", "e", "a", "t", "h", "e", "r">>,
       words |->
         <<<<"w", "e", "a", "t", "h", "e", "r">>,
           <<"t", "e", "m", "p", "e", "r", "a", "t", "u", "r", "e">>,
           <<"f", "o", "r", "e", "c", "a", "s", "t">>,
           <<"r", "a", "i", "n">>, <<"s", "n", "o", "w">>,
           <<"h", "u", "m", "i", "d", "i", "t", "y">>,
           <<"w", "i", "n", "d">>, <<"s", "t", "o", "r", "m">>,
           <<"c", "l", "i", "m", "a", "t", "e">>>>],
      [cap |-> <<"f", "i", "n", "a", "n", "c", "e">>,
       words |->
         <<<<"c", "p", "i">>,
           <<"i", "n", "f", "l", "a", "t", "i", "o", "n">>,
           <<"s", "t", "o", "c", "k">>, <<"m", "a", "r", "k", "e", "t">>,
           <<"p", "r", "i", "c", "e">>, <<"g", "d", "p">>,
           <<"u", "n", "e", "m", "p", "l", "o", "y", "m", "e", "n", "t">>,
           <<"e", "a", "r", "n", "i", "n", "g", "s">>,
           <<"r", "e", "v", "e", "n", "u", "e">>,
           <<"i", "n", "t", "e", "r", "e", "s", "t", " ", "r", "a", "t", "e">>,
           <<"e", "x", "c", "h", "a", "n", "g", "e", " ", "r", "a", "t", "e">>,
           <<"c", "u", "r", "r", "e", "n", "c", "y">>,
           <<"f", "o", "r", "e", "x">>, <<"d", "o", "l", "l", "a", "r">>,
           <<"e", "u", "r", "o">>, <<"y", "e", "n">>>>],
      [cap |-> <<"m", "a", "t", "h">>,
       words |->
         <<<<"c", "a", "l", "c", "u", "l", "a", "t", "e">>,
           <<"c", "o", "m", "p", "u", "t", "e">>,
           <<"s", "o", "l", "v", "e">>,
           <<"e", "q", "u", "a", "t", "i", "o", "n">>,
           <<"d", "e", "r", "i", "v", "a", "t", "i", "v", "e">>,
           <<"i", "n", "t", "e", "g", "r", "a", "l">>,
           <<"n", "u", "m", "b", "e", "r">>, <<"p", "r", "i", "m", "e">>,
           <<"f", "a", "c", "t", "o", "r", "i", "a", "l">>>>],
      [cap |-> <<"c", "o", "d", "i", "n", "g">>,
       words |->
         <<<<"p", "y", "t", "h", "o", "n">>,
           <<"j", "a", "v", "a", "s", "c", "r", "i", "p", "t">>,
           <<"b", "u", "g">>, <<"e", "r", "r", "o", "r">>,
           <<"s", "t", "a", "c", "k", " ", "t", "r", "a", "c", "e">>,
           <<"c", "o", "m", "p", "i", "l", "e">>, <<"c", "o", "d", "e">>,
           <<"f", "u", "n", "c", "t", "i", "o", "n">>>>],
      [cap |-> <<"t", "r", "a", "n", "s", "l", "a", "t", "e">>,
       words |->
         <<<<"t", "r", "a", "n", "s", "l", "a", "t", "e">>,
           <<"t", "r", "a", "n", "s", "l", "a", "t", "i", "o", "n">>,
           <<"i", "n", " ", "s", "p", "a", "n", "i", "s", "h">>,
           <<"i", "n", " ", "f", "r", "e", "n", "c", "h">>,
           <<"i", "n", " ", "h", "i", "n", "d", "i">>>>],
      [cap |-> <<"s", "u", "m", "m", "a", "r", "i", "z", "e">>,
       words |->
         <<<<"s", "u", "m", "m", "a", "r", "i", "z", "e">>,
           <<"s", "u", "m", "m", "a", "r", "y">>,
           <<"t", "l", ";", "d", "r">>,
           <<"k", "e", "y", " ", "p", "o", "i", "n", "t", "s">>>>],
      [cap |-> <<"d", "o", "c", "s">>,
       words |->
         <<<<"d", "o", "c", "u", "m", "e", "n", "t", "a", "t", "i", "o", "n">>,
           <<"a", "p", "i", " ", "d", "o", "c", "s">>,
           <<"r", "e", "a", "d", "m", "e">>, <<"s", "p", "e", "c">>,
           <<"s", "c", "h", "e", "m", "a">>,
           <<"d", "e", "f", "i", "n", "i", "t", "i", "o", "n">>,
           <<"m", "e", "a", "n", "i", "n", "g">>,
           <<"d", "i", "c", "t", "i", "o", "n", "a", "r", "y">>,
           <<"d", "e", "f", "i", "n", "e">>>>],
      [cap |-> <<"s", "e", "a", "r", "c", "h">>,
       words |->
         <<<<"s", "e", "a", "r", "c", "h">>,
           <<"l", "o", "o", "k", " ", "u", "p">>, <<"f", "i", "n", "d">>,
           <<"w", "h", "o", " ", "i", "s">>,
           <<"w", "h", "a", "t", " ", "i", "s">>,
           <<"w", "h", "e", "r", "e", " ", "i", "s">>,
           <<"c", "o", "u", "n", "t", "r", "y">>,
           <<"c", "a", "p", "i", "t", "a", "l">>,
           <<"p", "o", "p", "u", "l", "a", "t", "i", "o", "n">>,
           <<"b", "o", "o", "k">>, <<"a", "u", "t", "h", "o", "r">>,
           <<"l", "i", "b", "r", "a", "r", "y">>>>]>>

\* ["citation", "citations", "cite", "sources", "source", "link", "links"]
CitationWords ==
    <<<<"c", "i", "t", "a", "t", "i", "o", "n">>,
      <<"c", "i", "t", "a", "t", "i", "o", "n", "s">>,
      <<"c", "i", "t", "e">>, <<"s", "o", "u", "r", "c", "e", "s">>,
      <<"s", "o", "u", "r", "c", "e">>, <<"l", "i", "n", "k">>,
      <<"l", "i", "n", "k", "s">>>>

\* ["latest", "current", "today", "now", "this week"]
RealtimeWords ==
    <<<<"l", "a", "t", "e", "s", "t">>,
      <<"c", "u", "r", "r", "e", "n", "t">>, <<"t", "o", "d", "a", "y">>,
      <<"n", "o", "w">>, <<"t", "h", "i", "s", " ", "w", "e", "e", "k">>>>

\* any(w in t for w in words)
AnyIn(words, t) == \E i \in 1..Len(words) : Contains(words[i], t)

\* the loop over DOMAIN_KEYWORDS from entry k on; st holds caps and seen
RECURSIVE KeywordLoop(_, _, _)
KeywordLoop(st, t, k) ==
    IF k > Len(DOMAIN_KEYWORDS) THEN st
    ELSE LET cap == DOMAIN_KEYWORDS[k].cap
             words == DOMAIN_KEYWORDS[k].words
             nxt == IF AnyIn(words, t) /\ cap \notin st.seen
                    THEN [caps |-> Append(st.caps, cap), seen |-> st.seen \cup {cap}]
                    ELSE st
         IN KeywordLoop(nxt, t, k + 1)

\* mutant of CitationStep: force_citations is not looked at
CitationStep_IgnoreForce(st, t, force_citations) ==
    IF AnyIn(CitationWords, t)
    THEN IF Tag_citations \notin st.seen
         THEN [caps |-> Append(st.caps, Tag_citations),
               seen |-> st.seen \cup {Tag_citations}]
         ELSE st
    ELSE st

\* if force_citations or any(...): if "citations" not in seen: add it
CitationStep(st, t, force_citations) ==
    IF force_citations \/ AnyIn(CitationWords, t)
    THEN IF Tag_citations \notin st.seen
         THEN [caps |-> Append(st.caps, Tag_citations),
               seen |-> st.seen \cup {Tag_citations}]
         ELSE st
    ELSE st

\* if any(...): if "realtime" not in seen: caps.append("realtime")
RealtimeStep(st, t) ==
    IF AnyIn(RealtimeWords, t)
    THEN IF Tag_realtime \notin st.seen
         THEN [caps |-> Append(st.caps, Tag_realtime), seen |-> st.seen]
         ELSE st
    ELSE st

\* the three steps that _heuristic_caps and extract_capabilities share
Augment(st, task, force_citations) ==
    LET t == Lower(task)
    IN RealtimeStep(CitationStep(KeywordLoop(st, t, 1), t, force_citations), t)

\* _heuristic_caps
_heuristic_caps(task, force_citations) ==
    Augment([caps |-> << >>, seen |-> {}], task, force_citations).caps

\* the loop "for c in caps" of extract_capabilities from element k on
RECURSIVE DedupLoop(_, _, _)
DedupLoop(st, caps, k) ==
    IF k > Len(caps) THEN st
    ELSE LET c == caps[k]
             nxt == IF IsStr(c) /\ Strip(c.s) # << >>
                    THEN LET cl == Lower(Strip(c.s))
                         IN IF cl \in ALLOWED_CAPS /\ cl \notin st.seen
                            THEN [caps |-> Append(st.caps, cl),
                                  seen |-> st.seen \cup {cl}]
                            ELSE st
                    ELSE st
         IN DedupLoop(nxt, caps, k + 1)

\* extract_capabilities under one behaviour of the LLM backend.  Only
\* OllamaConnectionError is caught around the call; json.loads on text that
\* is no JSON, .get on a value that is no dict, and everything else inside
\* the second try block end in the heuristic.
extract_capabilities(task, force_citations, beh) ==
    LET r == ollama_generate(beh) IN
    IF r.kind = "raise"
    THEN IF r.exc = "OllamaConnectionError"
         THEN [kind |-> "return", caps |-> _heuristic_caps(task, force_citations)]
         ELSE [kind |-> "raise", exc |-> r.exc]
    ELSE IF r.raw.t # "json" \/ r.raw.p.t # "obj"
         THEN [kind |-> "return", caps |-> _heuristic_caps(task, force_citations)]
         ELSE LET caps == GetDefault(r.raw.p, "capabilities", JList(<< >>))
              IN IF caps.t # "list"
                 THEN [kind |-> "return",
                       caps |-> _heuristic_caps(task, force_citations)]
                 ELSE [kind |-> "return",
                       caps |-> Augment(DedupLoop([caps |-> << >>, seen |-> {}],
                                                  caps.l, 1),
                                        task, force_citations).caps]

(***************************************************************************)
(* core/validate.py, core/executor.py and the response models of           *)
(* core/models.py                                                          *)
(***************************************************************************)

\* mutant of ValidCitations: a value that is no list passes
ValidCitations_NonListOk(cites) ==
    \/ cites.t # "list"
    \/ /\ Len(cites.l) # 0
       /\ \A i \in 1..Len(cites.l) : IsStr(cites.l[i]) /\ Strip(cites.l[i].s) # << >>

\* a non-empty list of strings that are not blank
ValidCitations(cites) ==
    /\ cites.t = "list"
    /\ Len(cites.l) # 0
    /\ \A i \in 1..Len(cites.l) : IsStr(cites.l[i]) /\ Strip(cites.l[i].s) # << >>

\* validate_output: the list of error messages
validate_output(payload, require_citations) ==
    IF payload.t # "obj" THEN <<"Provider output must be a JSON object.">>
    ELSE LET cites == Get(payload, "citations")
             ts == Get(payload, "retrieved_at")
         IN (IF require_citations /\ ~ValidCitations(cites)
             THEN <<"Citations required but missing or invalid. Expected non-empty list field: citations: [str].">> ELSE << >>)
            \o (IF require_citations /\ ~(IsStr(ts) /\ Strip(ts.s) # << >>)
                THEN <<"Citations required but retrieved_at timestamp is missing.">>
                ELSE << >>)

StopAfterAttempt == 3      \* stop_after_attempt(3)

\* retry_if_exception_type((httpx.TimeoutException, httpx.ConnectError))
RetryOn == {"TimeoutException", "ConnectError"}

\* the body of execute_http on one attempt: the transport error, the
\* HTTPStatusError of raise_for_status() on a status that is not 2xx, the
\* decode error of response.json(), or the decoded payload
OneAttempt(att) ==
    IF att.a = "error" THEN [kind |-> "raise", exc |-> att.exc]
    ELSE IF att.status \div 100 # 2 THEN [kind |-> "raise", exc |-> "HTTPStatusError"]
    ELSE IF att.body.t = "text" THEN [kind |-> "raise", exc |-> "JSONDecodeError"]
    ELSE [kind |-> "return", payload |-> att.body.p]

\* mutant of execute_http: every exception is retried
RECURSIVE execute_http_RetryAny(_, _)
execute_http_RetryAny(script, attempt) ==
    LET o == OneAttempt(script[attempt]) IN
    IF o.kind = "raise" /\ attempt < StopAfterAttempt
    THEN execute_http_RetryAny(script, attempt + 1)
    ELSE o @@ [attempts |-> attempt]

\* execute_http under its tenacity decorator: script[i] is what the provider
\* does on attempt i; the exception of the last attempt is re-raised
RECURSIVE execute_http(_, _)
execute_http(script, attempt) ==
    LET o == OneAttempt(script[attempt]) IN
    IF o.kind = "raise" /\ o.exc \in RetryOn /\ attempt < StopAfterAttempt
    THEN execute_http(script, attempt + 1)
    ELSE o @@ [attempts |-> attempt]

\* str(e) behind "Execution failed: "
ExecutionFailed(exc) ==
    CASE exc = "TimeoutException" -> "Execution failed: timed out"
      [] exc = "ConnectError" -> "Execution failed: connection refused"
      [] exc = "HTTPStatusError" -> "Execution failed: server error response"
      [] OTHER -> "Execution failed: invalid JSON body"

\* Provenance(sources=..., retrieved_at=..., notes=[]): pydantic accepts a
\* list of strings and a string, anything else is a ValidationError
Provenance(sources, retrieved_at) ==
    IF /\ sources.t = "list"
       /\ \A i \in 1..Len(sources.l) : IsStr(sources.l[i])
       /\ IsStr(retrieved_at)
    THEN [kind |-> "ok", v |-> [sources |-> sources.l, retrieved_at |-> retrieved_at.s]]
    ELSE [kind |-> "raise", exc |-> "ValidationError"]

\* mutant of ExecuteResponse: the response always says ok
ExecuteResponse_AlwaysOk(app_id, ok, output, provenance, validation_errors, run_id) ==
    IF output.t \notin {"obj", "null"}
    THEN [kind |-> "raise", exc |-> "ValidationError"]
    ELSE [kind |-> "return", app_id |-> app_id, ok |-> TRUE, output |-> output,
          provenance |-> provenance, validation_errors |-> validation_errors,
          run_id |-> run_id]

\* ExecuteResponse(...): the field output is "dict | None"
ExecuteResponse(app_id, ok, output, provenance, validation_errors, run_id) ==
    IF output.t \notin {"obj", "null"}
    THEN [kind |-> "raise", exc |-> "ValidationError"]
    ELSE [kind |-> "return", app_id |-> app_id, ok |-> ok, output |-> output,
          provenance |-> provenance, validation_errors |-> validation_errors,
          run_id |-> run_id]

(***************************************************************************)
(* The database and the trust scores of apps/api/main.py                   *)
(***************************************************************************)

\* the catalog that bootstrap_manifests() loaded: every row went through
\* AppCreate, so executor_type is "http_api" and the capability tags are
\* stripped, lower-case and not blank.  create_app and upsert_app leave the
\* table as it is (see CreateApp, UpsertApp).  Cost is in mills.
Catalog == <<
    [id |-> "wx", capabilities |-> {"weather", "realtime", "citations"},
     freshness |-> "realtime", citations_supported |-> TRUE,
     latency_est_ms |-> 800, cost_est_usd |-> 0,
     executor_type |-> "http_api", executor_url |-> "http://wx"],
    [id |-> "calc", capabilities |-> {"weather"},
     freshness |-> "static", citations_supported |-> FALSE,
     latency_est_ms |-> 100, cost_est_usd |-> 0,
     executor_type |-> "http_api", executor_url |-> "http://calc"],
    [id |-> "nourl", capabilities |-> {"weather"},
     freshness |-> "daily", citations_supported |-> TRUE,
     latency_est_ms |-> 1, cost_est_usd |-> 0,
     executor_type |-> "http_api", executor_url |-> ""] >>

\* db.get(AppListing, app_id): None or the row
GetApp(cat, app_id) ==
    LET I == {i \in 1..Len(cat) : cat[i].id = app_id}
    IN IF I = {} THEN NoneV ELSE Some(cat[CHOOSE i \in I : TRUE])

\* mutant of log_run: the row takes the place of the newest row
log_run_Overwrite(rs, req, require_citations, ok, payload, errors, latency_ms) ==
    (IF rs = << >> THEN << >> ELSE SubSeq(rs, 1, Len(rs) - 1))
    \o <<[id |-> Max(1, Len(rs)), app_id |-> req.app_id, client_id |-> req.client_id,
          require_citations |-> require_citations, ok |-> ok,
          output |-> payload, errors |-> errors, latency_ms |-> latency_ms]>>

\* log_run: db.add(Run(...)); db.commit(): the table with the new row, whose
\* autoincrement id is the returned run id.  output is the payload (JSON
\* null: output_json is NULL); task and created_at are not modelled.
log_run(rs, req, require_citations, ok, payload, errors, latency_ms) ==
    Append(rs, [id |-> Len(rs) + 1, app_id |-> req.app_id, client_id |-> req.client_id,
                require_citations |-> require_citations, ok |-> ok,
                output |-> payload, errors |-> errors, latency_ms |-> latency_ms])

\* _log_message: db.add(ConversationMessage(...)); db.commit()
_log_message(msgs, client_id, role, content) ==
    Append(msgs, [client_id |-> client_id, role |-> role, content |-> content])

RECURSIVE SumSeq(_)
SumSeq(s) == IF s = << >> THEN 0 ELSE Head(s) + SumSeq(Tail(s))

RECURSIVE InsertAsc(_, _)
InsertAsc(s, x) ==
    IF s = << >> THEN <<x>>
    ELSE IF Head(s) <= x THEN <<Head(s)>> \o InsertAsc(Tail(s), x)
         ELSE <<x>> \o s

\* sorted(values)
RECURSIVE SortAsc(_)
SortAsc(s) == IF s = << >> THEN << >> ELSE InsertAsc(SortAsc(Tail(s)), Head(s))

\* round(0.95 * n): to the nearest integer, a tie to the even one
Round95(n) ==
    LET q == (95 * n) \div 100
        r == (95 * n) % 100
    IN IF r > 50 THEN q + 1
       ELSE IF r < 50 THEN q
       ELSE IF q % 2 = 0 THEN q ELSE q + 1

\* _p95
_p95(values) ==
    IF values = << >> THEN NoneV
    ELSE Some(SortAsc(values)[Max(0, Round95(Len(values) - 1)) + 1])

\* round(x, 4) of a value in units of 1/SCALE
Round4(x) ==
    LET unit == SCALE \div 10000
    IN ((x + unit \div 2) \div unit) * unit

\* the rows of rs with the given app id, in order
RECURSIVE RunsOf(_, _)
RunsOf(rs, app_id) ==
    IF rs = << >> THEN << >>
    ELSE (IF Head(rs).app_id = app_id THEN <<Head(rs)>> ELSE << >>)
         \o RunsOf(Tail(rs), app_id)

\* mutant of TrustBlend: the weight of the citation pass rate is 0.5
TrustBlend_HeavyCitations(success_rate, citation_pass_rate, latency_score) ==
    (5 * success_rate + 5 * citation_pass_rate + 2 * latency_score) \div 10

\* trust_score = (0.5 * success_rate) + (0.3 * citation_pass_rate) + (0.2 * latency_score)
TrustBlend(success_rate, citation_pass_rate, latency_score) ==
    (5 * success_rate + 3 * citation_pass_rate + 2 * latency_score) \div 10

\* the TrustOut that _trust_scores_by_app builds from the runs of one app
\* (the list is not empty); last_run_at is not modelled
TrustOutOf(app_id, rows) ==
    LET total == Len(rows)
        I == 1..total
        ok_count == Cardinality({i \in I : rows[i].ok})
        success_rate == (ok_count * SCALE) \div total
        require_cite == {i \in I : rows[i].require_citations}
        cite_ok == {i \in require_cite : rows[i].ok}
        citation_pass_rate ==
            IF require_cite # {}
            THEN (Cardinality(cite_ok) * SCALE) \div Cardinality(require_cite)
            ELSE success_rate
        latencies == [i \in I |-> rows[i].latency_ms]
        avg_latency == SumSeq(latencies) \div total
        latency_score == IF avg_latency # 0
                         THEN _latency_score(avg_latency, NoneV).v
                         ELSE SCALE \div 2
        trust_score == TrustBlend(success_rate, citation_pass_rate, latency_score)
    IN [app_id |-> app_id, total_runs |-> total,
        success_rate |-> Round4(success_rate),
        citation_pass_rate |-> Round4(citation_pass_rate),
        avg_latency_ms |-> Some(avg_latency),
        p95_latency_ms |-> _p95(latencies),
        trust_score |-> Round4(trust_score),
        insufficient_data |-> FALSE]

\* _trust_scores_by_app: a dict from the app ids that have runs
_trust_scores_by_app(rs) ==
    [app_id \in {rs[i].app_id : i \in 1..Len(rs)} |-> TrustOutOf(app_id, RunsOf(rs, app_id))]

\* mutant of NoRunsTrust: an app without runs has trust 0
NoRunsTrust_Zero(app_id) ==
    [app_id |-> app_id, total_runs |-> 0, success_rate |-> 0,
     citation_pass_rate |-> 0, avg_latency_ms |-> NoneV, p95_latency_ms |-> NoneV,
     trust_score |-> 0, insufficient_data |-> TRUE]

\* the TrustOut of an app without runs
NoRunsTrust(app_id) ==
    [app_id |-> app_id, total_runs |-> 0, success_rate |-> 0,
     citation_pass_rate |-> 0, avg_latency_ms |-> NoneV, p95_latency_ms |-> NoneV,
     trust_score |-> SCALE \div 2, insufficient_data |-> TRUE]

(***************************************************************************)
(* The handlers of apps/api/main.py, each as an operator from the tables   *)
(* and the request to the new tables and the outcome                       *)
(***************************************************************************)

\* the /execute handler behind its dependencies.  script is what the
\* provider does on each attempt, latency_ms what log_run measures.  The
\* parameter extraction of lines 620-641 only changes the params sent to the
\* provider and swallows its exceptions.
execute(cat, rs, msgs, req, script, latency_ms) ==
    LET app_row == GetApp(cat, req.app_id)
        Done(rs1, msgs1, r, http) ==
            [runs |-> rs1, messages |-> msgs1, resp |-> r, http |-> http]
        Failed(require_citations, payload, errors, http) ==
            LET rs1 == log_run(rs, req, require_citations, FALSE, payload, errors,
                               latency_ms)
            IN Done(rs1, msgs,
                    ExecuteResponse(req.app_id, FALSE, payload, NoneV, errors,
                                    rs1[Len(rs1)].id),
                    http)
    IN IF IsNone(app_row) THEN Failed(TRUE, JNull, <<"Unknown app_id">>, NoCall)
       ELSE
       LET row == Val(app_row)
           require_citations == req.require_citations /\ row.citations_supported
       IN IF row.executor_type # "http_api"
          THEN Failed(require_citations, JNull, <<"Unsupported executor_type">>, NoCall)
          ELSE IF row.executor_url = ""
          THEN Failed(require_citations, JNull, <<"Missing executor_url">>, NoCall)
          ELSE
          LET http == execute_http(script, 1) IN
          IF http.kind = "raise"
          THEN Failed(require_citations, JNull, <<ExecutionFailed(http.exc)>>, http)
          ELSE
          LET payload == http.payload
              errors == validate_output(payload, require_citations)
          IN IF errors # << >> THEN Failed(require_citations, payload, errors, http)
             ELSE
             LET prov == Provenance(GetDefault(payload, "citations", JList(<< >>)),
                                    GetDefault(payload, "retrieved_at", JStr(<< >>)))
             IN IF prov.kind = "raise" THEN Done(rs, msgs, prov, http)
                ELSE
                LET rs1 == log_run(rs, req, require_citations, TRUE, payload, << >>,
                                   latency_ms)
                    msgs1 == IF ~IsNone(req.client_id) /\ Val(req.client_id) # ""
                             THEN _log_message(msgs, Val(req.client_id), "provider",
                                               payload)
                             ELSE msgs
                IN Done(rs1, msgs1,
                        ExecuteResponse(req.app_id, TRUE, payload, Some(prov.v), << >>,
                                        rs1[Len(rs1)].id),
                        http)

\* the app dicts the shop handler builds from the catalog and the trust scores
ShopApps(cat, rs) ==
    LET trust_scores == _trust_scores_by_app(rs) IN
    [i \in 1..Len(cat) |->
        [id |-> cat[i].id, capabilities |-> cat[i].capabilities,
         freshness |-> cat[i].freshness,
         citations_supported |-> cat[i].citations_supported,
         latency_est_ms |-> cat[i].latency_est_ms,
         cost_est_usd |-> cat[i].cost_est_usd,
         trust_score |-> IF cat[i].id \in DOMAIN trust_scores
                         THEN Some(trust_scores[cat[i].id].trust_score)
                         ELSE NoneV]]

\* a call recommend(req, apps, **kwargs) of the function with the parameters
\* (req, apps, k): a keyword that names no parameter is a TypeError
recommend_call(req, apps, kwargs, rels) ==
    IF DOMAIN kwargs \subseteq {"k"}
    THEN recommend(req, apps, kwargs.k, rels)
    ELSE [kind |-> "raise", exc |-> "TypeError"]

\* the /shop handler behind its dependencies and its cache lookup (the cache
\* is written after line 409 only): line 409 calls recommend with the keyword
\* semantic_search_engine and unpacks the result into three names, while
\* recommend returns a pair
shop(cat, rs, req, rels) ==
    LET apps == ShopApps(cat, rs)
        r == recommend_call(req, apps,
                            [k |-> Len(apps), semantic_search_engine |-> "engine"],
                            rels)
    IN IF r.kind = "raise" THEN [kind |-> "raise", exc |-> r.exc]
       ELSE [kind |-> "raise", exc |-> "ValueError"]

RunsLimit == 50      \* .limit(50) of list_runs

\* the fields of a row that RunOut carries
RunOut(r) ==
    [id |-> r.id, app_id |-> r.app_id, require_citations |-> r.require_citations,
     ok |-> r.ok, latency_ms |-> r.latency_ms, validation_errors |-> r.errors,
     client_id |-> r.client_id]

\* list_runs: the newest RunsLimit rows, newest first
list_runs(rs) ==
    [i \in 1..Min(RunsLimit, Len(rs)) |-> RunOut(rs[Len(rs) + 1 - i])]

\* get_run: 404, or the row with its output; RunDetailOut.output is
\* "dict | None"
get_run(rs, run_id) ==
    IF run_id \notin 1..Len(rs)
    THEN [kind |-> "raise", exc |-> "HTTPException", status |-> 404]
    ELSE IF rs[run_id].output.t \notin {"obj", "null"}
    THEN [kind |-> "raise", exc |-> "ValidationError"]
    ELSE [kind |-> "return", body |-> RunOut(rs[run_id]) @@ [output |-> rs[run_id].output]]

\* list_trust: one TrustOut per catalog row
list_trust(cat, rs) ==
    LET scores == _trust_scores_by_app(rs) IN
    [i \in 1..Len(cat) |-> IF cat[i].id \in DOMAIN scores THEN scores[cat[i].id]
                           ELSE NoRunsTrust(cat[i].id)]

\* app_trust
app_trust(cat, rs, app_id) ==
    LET scores == _trust_scores_by_app(rs) IN
    IF app_id \in DOMAIN scores THEN [kind |-> "return", body |-> scores[app_id]]
    ELSE IF IsNone(GetApp(cat, app_id))
    THEN [kind |-> "raise", exc |-> "HTTPException", status |-> 404]
    ELSE [kind |-> "return", body |-> NoRunsTrust(app_id)]

\* the fields of class AppCreate (core/models.py)
AppCreateFields ==
    {"id", "name", "description", "capabilities", "freshness", "citations_supported",
     "latency_est_ms", "cost_est_usd", "executor_type", "executor_url"}

\* the row that create_app and upsert_app write for app_in
RowOf(app_in) ==
    [id |-> app_in.id, capabilities |-> app_in.capabilities,
     freshness |-> app_in.freshness,
     citations_supported |-> app_in.citations_supported,
     latency_est_ms |-> app_in.latency_est_ms, cost_est_usd |-> app_in.cost_est_usd,
     executor_type |-> app_in.executor_type, executor_url |-> app_in.executor_url]

\* create_app: 409 for an id that exists; otherwise line 278 reads
\* app_in.metadata, which AppCreate does not have
create_app(cat, app_in) ==
    IF ~IsNone(GetApp(cat, app_in.id))
    THEN [catalog |-> cat,
          resp |-> [kind |-> "raise", exc |-> "HTTPException", status |-> 409]]
    ELSE IF "metadata" \notin AppCreateFields
    THEN [catalog |-> cat, resp |-> [kind |-> "raise", exc |-> "AttributeError"]]
    ELSE [catalog |-> Append(cat, RowOf(app_in)),
          resp |-> [kind |-> "return", body |-> RowOf(app_in)]]

\* upsert_app: 400 when the path id is not the body id; otherwise line 329
\* reads app_in.category, which AppCreate does not have, before the commit
upsert_app(cat, app_id, app_in) ==
    IF app_id # app_in.id
    THEN [catalog |-> cat,
          resp |-> [kind |-> "raise", exc |-> "HTTPException", status |-> 400]]
    ELSE IF "category" \notin AppCreateFields
    THEN [catalog |-> cat, resp |-> [kind |-> "raise", exc |-> "AttributeError"]]
    ELSE [catalog |-> IF IsNone(GetApp(cat, app_id)) THEN Append(cat, RowOf(app_in))
                      ELSE [i \in 1..Len(cat) |->
                               IF cat[i].id = app_id THEN RowOf(app_in) ELSE cat[i]],
          resp |-> [kind |-> "return", body |-> RowOf(app_in)]]

\* AppCreate.model_validate(manifest): the constraints of the fields
AppCreateValid(manifest) ==
    /\ manifest.id # ""
    /\ manifest.freshness \in {"static", "daily", "realtime"}
    /\ manifest.latency_est_ms >= 1
    /\ manifest.cost_est_usd >= 0
    /\ manifest.executor_type = "http_api"

\* row = db.get(AppListing, app_id), a new row when there is none, the
\* fields set, db.commit()
UpsertRow(cat, row) ==
    IF IsNone(GetApp(cat, row.id)) THEN Append(cat, row)
    ELSE [i \in 1..Len(cat) |-> IF cat[i].id = row.id THEN row ELSE cat[i]]

\* bootstrap_manifests from manifest k on: a manifest that AppCreate refuses
\* is skipped, every other one is upserted by its id
RECURSIVE bootstrap_manifests(_, _, _)
bootstrap_manifests(cat, manifests, k) ==
    IF k > Len(manifests) THEN cat
    ELSE bootstrap_manifests(IF AppCreateValid(manifests[k])
                             THEN UpsertRow(cat, RowOf(manifests[k]))
                             ELSE cat,
                             manifests, k + 1)

(***************************************************************************)
(* Inputs of the router specification                                      *)
(***************************************************************************)
MaxApps == 3      \* longest candidate list given to recommend()
MaxK == 3         \* largest k given to recommend()

\* the app dicts of tests/test_router.py SAMPLE_APPS, with a trust_score key
\* as the shop handler adds it, one app at the smallest legal latency and one
\* slow, costly app of low trust
AppUniverse == <<
    [id |-> "weather_rt", capabilities |-> {"weather", "realtime", "citations"},
     freshness |-> "realtime", citations_supported |-> TRUE,
     latency_est_ms |-> 800, cost_est_usd |-> 0, trust_score |-> NoneV],
    [id |-> "weather_static", capabilities |-> {"weather"},
     freshness |-> "static", citations_supported |-> FALSE,
     latency_est_ms |-> 100, cost_est_usd |-> 0, trust_score |-> Some((9 * SCALE) \div 10)],
    [id |-> "finance_rt", capabilities |-> {"finance", "realtime", "citations"},
     freshness |-> "realtime", citations_supported |-> TRUE,
     latency_est_ms |-> 500, cost_est_usd |-> 5, trust_score |-> Some((2 * SCALE) \div 10)],
    [id |-> "echo", capabilities |-> {"weather"},
     freshness |-> "daily", citations_supported |-> TRUE,
     latency_est_ms |-> 1, cost_est_usd |-> 0, trust_score |-> NoneV],
    [id |-> "ledger_slow", capabilities |-> {"finance"},
     freshness |-> "realtime", citations_supported |-> TRUE,
     latency_est_ms |-> 1000, cost_est_usd |-> 5, trust_score |-> Some(SCALE \div 10)] >>

\* the sublists of s, in the order of s
RECURSIVE SubLists(_)
SubLists(s) ==
    IF s = << >> THEN {<< >>}
    ELSE LET rest == SubLists(Tail(s)) IN rest \cup {<<Head(s)>> \o r : r \in rest}

AppLists == {l \in SubLists(AppUniverse) : Len(l) <= MaxApps}

ConstraintSet ==
    [citations_required : BOOLEAN,
     freshness : {NoneV, Some("realtime"), Some("static")},
     max_latency_ms : {NoneV, Some(1), Some(200), Some(1000)},
     max_cost_usd : {NoneV, Some(0), Some(5)}]

RequestSet ==
    [required_capabilities : {{}, {"weather"}, {"Weather ", "realtime"}, {"finance", " "}},
     constraints : ConstraintSet]

\* relevance scores a call may see: below, just above and well above
\* MIN_RELEVANCE_SCORE
RelValues == {(5 * SCALE) \div 100, (10 * SCALE) \div 100, (60 * SCALE) \div 100}

(***************************************************************************)
(* Inputs of the sales-agent specification                                 *)
(***************************************************************************)
MaxCands == 3     \* longest candidate list given to sales_recommendation()
MaxRecs == 4      \* longest recommendations list the LLM emits

\* candidate dicts: "x" has no attribute a text could be built from, the
\* names of "x" and "xb" normalise to the same label, and the third
\* candidate's id is the sentinel string itself
CandUniverse == <<
    [app_id |-> <<"x">>, name |-> <<"Q", ".">>, capabilities |-> << >>,
     freshness |-> NoneV, citations_supported |-> FALSE,
     latency_est_ms |-> NoneV, cost_est_usd |-> NoneV],
    [app_id |-> <<"x", "b">>, name |-> <<"q">>, capabilities |-> <<"weather">>,
     freshness |-> Some("realtime"), citations_supported |-> TRUE,
     latency_est_ms |-> Some(800), cost_est_usd |-> Some(0)],
    [app_id |-> NO_MATCH, name |-> <<"N", "o", " ", "M", "a", "t", "c", "h">>,
     capabilities |-> <<"search">>,
     freshness |-> Some("static"), citations_supported |-> FALSE,
     latency_est_ms |-> Some(100), cost_est_usd |-> Some(5)] >>

CandLists == {l \in SubLists(CandUniverse) : Len(l) <= MaxCands}

\* what the LLM may put in "summary"
SummaryVals == {JStr(<<" ", "s">>), JNull}

\* what the LLM may put in "final_choice": an exact id, the sentinel, nothing,
\* a singleton list with an id in another case, an object with a longer id
FinalVals == {JStr(<<"x">>), JStr(NO_MATCH), JNull,
              JList(<<JStr(<<" ", "X", "B", " ">>)>>),
              JObj([k \in {"id"} |-> JStr(<<"z", "x", "b">>)])}

\* the entries the LLM may put in "recommendations": an exact id with texts,
\* an id in another case without texts, a display name in a nested object,
\* an entry that is not an object, the sentinel in lower case
RecEntries == {
    JObj([k \in {"app_id", "rationale", "tradeoff"} |->
            CASE k = "app_id" -> JStr(<<"x">>)
              [] k = "rationale" -> JStr(<<"r", " ">>)
              [] OTHER -> JStr(<<"t">>)]),
    JObj([k \in {"app_id", "rationale"} |->
            CASE k = "app_id" -> JStr(<<" ", "X", "B", " ">>)
              [] OTHER -> JStr(<<" ">>)]),
    JObj([k \in {"app_id", "rationale", "tradeoff"} |->
            CASE k = "app_id" -> JObj([n \in {"name"} |-> JStr(<<"Q", "!">>)])
              [] k = "rationale" -> JStr(<<"r">>)
              [] OTHER -> JStr(<<"t">>)]),
    JStr(<<"x">>),
    JObj([k \in {"app_id", "rationale", "tradeoff"} |->
            CASE k = "app_id" -> JStr(<<"n", "o", "_", "m", "a", "t", "c", "h">>)
              [] k = "rationale" -> JStr(<<"r">>)
              [] OTHER -> JStr(<<"t">>)]) }

\* the sequences over S of length at most n
RECURSIVE SeqsUpTo(_, _)
SeqsUpTo(S, n) ==
    IF n = 0 THEN {<< >>}
    ELSE LET shorter == SeqsUpTo(S, n - 1)
         IN shorter \cup {Append(q, x) : q \in shorter, x \in S}

RecsVals == {JList(l) : l \in SeqsUpTo(RecEntries, MaxRecs)} \cup {JNull}

\* the dicts the LLM output may parse to
Payloads ==
    {JObj([k \in {"summary", "final_choice", "recommendations"} |->
            CASE k = "summary" -> sm [] k = "final_choice" -> fc [] OTHER -> rc]) :
        sm \in SummaryVals, fc \in FinalVals, rc \in RecsVals}

\* what the backend may do on one call
LLMBehaviours ==
    {[b |-> x] : x \in {"connection_error", "timeout", "http_error", "bad_body"}}
    \cup {[b |-> "reply", raw |-> [t |-> "text"]]}
    \cup {[b |-> "reply", raw |-> [t |-> "json", p |-> pl]] : pl \in Payloads}

(***************************************************************************)
(* The rate limiter of auth/rate_limiter.py.  A datetime is a record: "at"  *)
(* is the instant in minutes, "aware" tells whether it carries a time zone. *)
(***************************************************************************)
\* window_minutes: int = 60
WindowMinutes == 60

\* "enterprise": 100000
EnterpriseLimit == 100000

\* datetime.now(timezone.utc)
UtcNow(t) == [at |-> t, aware |-> TRUE]

\* a value read back from a DateTime column: the column keeps no time zone
LoadDateTime(dt) == [at |-> dt.at, aware |-> FALSE]

\* a - b of two datetimes, in seconds: Python refuses to subtract an aware
\* datetime from a naive one
DateTimeSub(a, b) ==
    IF a.aware # b.aware
    THEN [kind |-> "raise", exc |-> "TypeError"]
    ELSE [kind |-> "ok", seconds |-> (a.at - b.at) * 60]

\* TIER_LIMITS
TIER_LIMITS(st) ==
    [tier \in {"free", "starter", "pro", "enterprise"} |->
        CASE tier = "free" -> st.RATE_LIMIT_FREE_TIER_PER_HOUR
          [] tier = "starter" -> st.RATE_LIMIT_STARTER_TIER_PER_HOUR
          [] tier = "pro" -> st.RATE_LIMIT_PRO_TIER_PER_HOUR
          [] tier = "enterprise" -> EnterpriseLimit]

\* TIER_LIMITS.get(user.tier, RATE_LIMIT_FREE_TIER_PER_HOUR)
TierLimit(st, tier) ==
    IF tier \in DOMAIN TIER_LIMITS(st)
    THEN TIER_LIMITS(st)[tier]
    ELSE st.RATE_LIMIT_FREE_TIER_PER_HOUR

\* f"user_{user.id}"
Identifier(user) == <<"user_", user.id>>

\* the indices of the rows that the query of check_rate_limit selects
RateRecords(table, user, endpoint, window_start) ==
    {i \in 1..Len(table) :
        /\ table[i].identifier = Identifier(user)
        /\ table[i].identifier_type = "user"
        /\ table[i].endpoint = endpoint
        /\ table[i].window_start.at >= window_start.at}

\* .first(): the selected row that was inserted first, None when there is none
FirstRecord(table, user, endpoint, window_start) ==
    LET sel == RateRecords(table, user, endpoint, window_start)
    IN IF sel = {} THEN NoneV
       ELSE Some(CHOOSE i \in sel : \A j \in sel : i <= j)

\* check_rate_limit(db, user) at instant t: the outcome and the table after it
check_rate_limit(st, table, user, t) ==
    IF ~st.RATE_LIMIT_ENABLED
    THEN [resp |-> [kind |-> "return"], table |-> table]
    ELSE
    LET limit == TierLimit(st, user.tier)
        window_start == [at |-> t - WindowMinutes, aware |-> TRUE]
        rate_record == FirstRecord(table, user, "global", window_start)
    IN IF IsNone(rate_record)
       THEN [resp |-> [kind |-> "return"],
             table |-> Append(table,
                          [identifier |-> Identifier(user), identifier_type |-> "user",
                           endpoint |-> "global",
                           window_start |-> LoadDateTime(UtcNow(t)),
                           request_count |-> 1])]
       ELSE LET i == Val(rate_record) IN
            IF table[i].request_count >= limit
            THEN LET end == [at |-> table[i].window_start.at + WindowMinutes,
                             aware |-> table[i].window_start.aware]
                     time_until_reset == DateTimeSub(end, UtcNow(t))
                 IN IF time_until_reset.kind = "raise"
                    THEN [resp |-> time_until_reset, table |-> table]
                    ELSE [resp |-> [kind |-> "raise", exc |-> "HTTPException",
                                    status_code |-> 429,
                                    XRateLimitLimit |-> limit,
                                    XRateLimitRemaining |-> "0",
                                    XRateLimitReset |-> time_until_reset.seconds,
                                    RetryAfter |-> time_until_reset.seconds],
                          table |-> table]
            ELSE [resp |-> [kind |-> "return"],
                  table |-> [table EXCEPT ![i].request_count = @ + 1]]

(***************************************************************************)
(* Idle values: a part of the system that a specification does not run     *)
(***************************************************************************)
RouterIdle ==
    /\ rReq = [required_capabilities |-> {},
               constraints |-> [citations_required |-> FALSE, freshness |-> NoneV,
                                max_latency_ms |-> NoneV, max_cost_usd |-> NoneV]]
    /\ rApps = << >>
    /\ rOut = NoCall

SalesIdle ==
    /\ sCands = << >>
    /\ sPc = "idle"
    /\ sPayload = NoneV
    /\ sCalls = << >>
    /\ sLastErr = ""
    /\ sOut = NoCall

ApiIdle ==
    /\ authEnabled = FALSE
    /\ catalog = << >>
    /\ runs = << >>
    /\ usage = 0
    /\ messages = << >>
    /\ nCalls = 0
    /\ call = NoCall
    /\ resp = NoCall

RateIdle ==
    /\ settings = [RATE_LIMIT_ENABLED |-> FALSE]
    /\ now = 0
    /\ rate_limits = << >>
    /\ admitted = << >>
    /\ rlCall = NoCall
    /\ rlResp = NoCall

FnIdle ==
    /\ fnArgs = << >>
    /\ fnOut = NoCall

CacheIdle ==
    /\ _redis_client = FALSE
    /\ _memory_store = << >>
    /\ redisUrl = FALSE
    /\ redisUp = FALSE
    /\ redisData = << >>
    /\ clock = 0
    /\ lastSet = << >>
    /\ cacheCall = NoCall
    /\ cacheOut = NoCall

AuthIdle ==
    /\ api_keys = << >>
    /\ akCall = NoCall
    /\ akResp = NoCall

(***************************************************************************)
(* Specification of the router                                             *)
(***************************************************************************)
InitRouter ==
    /\ rReq \in RequestSet
    /\ rApps \in AppLists
    /\ rOut = NoCall
    /\ SalesIdle
    /\ ApiIdle
    /\ RateIdle
    /\ FnIdle
    /\ CacheIdle
    /\ AuthIdle

\* one call recommend(rReq, rApps, k)
RouterRecommend ==
    /\ rOut = NoCall
    /\ \E k \in 1..MaxK, rels \in [1..Len(rApps) -> RelValues] :
          rOut' = [call |-> [k |-> k, rels |-> rels]] @@ recommend(rReq, rApps, k, rels)
    /\ UNCHANGED <<rReq, rApps>>
    /\ UNCHANGED salesVars
    /\ UNCHANGED apiVars
    /\ UNCHANGED rlVars
    /\ UNCHANGED fnVars
    /\ UNCHANGED <<cacheVars, authVars>>

NextRouter == RouterRecommend

SpecRouter == InitRouter /\ [][NextRouter]_vars

(***************************************************************************)
(* Specification of the sales agent: sales_recommendation(), one action    *)
(* per LLM call and one for the parse of the payload in hand               *)
(***************************************************************************)
InitSales ==
    /\ sCands \in CandLists
    /\ sPc = "primary"
    /\ sPayload = NoneV
    /\ sCalls = << >>
    /\ sLastErr = ""
    /\ sOut = NoCall
    /\ RouterIdle
    /\ ApiIdle
    /\ RateIdle
    /\ FnIdle
    /\ CacheIdle
    /\ AuthIdle

\* mutant of SalesPrimary: the strict retry follows a parsed payload too
SalesPrimary_AlwaysRetry ==
    /\ sPc = "primary"
    /\ sCalls' = Append(sCalls, "primary")
    /\ \E beh \in LLMBehaviours :
         LET r == CallAndLoad(beh) IN
         IF r.kind = "raise"
         THEN /\ sOut' = (IF r.exc = "OllamaConnectionError" THEN Err(r.msg)
                          ELSE [kind |-> "raise", exc |-> r.exc, msg |-> r.msg])
              /\ sPc' = "done"
              /\ UNCHANGED sPayload
         ELSE /\ sPayload' = r.payload
              /\ sPc' = "retry"
              /\ UNCHANGED sOut
    /\ UNCHANGED <<sCands, sLastErr>>
    /\ UNCHANGED routerVars
    /\ UNCHANGED apiVars
    /\ UNCHANGED rlVars
    /\ UNCHANGED fnVars
    /\ UNCHANGED <<cacheVars, authVars>>

\* the primary prompt: only OllamaConnectionError is turned into
\* SalesAgentError, any other exception leaves sales_recommendation
SalesPrimary ==
    /\ sPc = "primary"
    /\ sCalls' = Append(sCalls, "primary")
    /\ \E beh \in LLMBehaviours :
         LET r == CallAndLoad(beh) IN
         IF r.kind = "raise"
         THEN /\ sOut' = (IF r.exc = "OllamaConnectionError" THEN Err(r.msg)
                          ELSE [kind |-> "raise", exc |-> r.exc, msg |-> r.msg])
              /\ sPc' = "done"
              /\ UNCHANGED sPayload
         ELSE /\ sPayload' = r.payload
              /\ sPc' = (IF IsNone(r.payload) THEN "retry" ELSE "parse")
              /\ UNCHANGED sOut
    /\ UNCHANGED <<sCands, sLastErr>>
    /\ UNCHANGED routerVars
    /\ UNCHANGED apiVars
    /\ UNCHANGED rlVars
    /\ UNCHANGED fnVars
    /\ UNCHANGED <<cacheVars, authVars>>

\* the strict retry with compact candidates: any exception leaves payload None
SalesRetry ==
    /\ sPc = "retry"
    /\ sCalls' = Append(sCalls, "strict_retry")
    /\ \E beh \in LLMBehaviours :
         LET r == CallAndLoad(beh)
             payload == IF r.kind = "raise" THEN NoneV ELSE r.payload IN
         /\ sPayload' = payload
         /\ sPc' = (IF IsNone(payload) THEN "repair_json" ELSE "parse")
    /\ UNCHANGED <<sCands, sLastErr, sOut>>
    /\ UNCHANGED routerVars
    /\ UNCHANGED apiVars
    /\ UNCHANGED rlVars
    /\ UNCHANGED fnVars
    /\ UNCHANGED <<cacheVars, authVars>>

\* _repair_json: any exception, also the ValueError for unparseable text,
\* becomes SalesAgentError("sales_agent_invalid_json")
SalesRepairJson ==
    /\ sPc = "repair_json"
    /\ sCalls' = Append(sCalls, "repair_json")
    /\ \E beh \in LLMBehaviours :
         LET r == CallAndLoad(beh)
             payload == IF r.kind = "raise" THEN NoneV ELSE r.payload IN
         IF IsNone(payload)
         THEN /\ sOut' = Err("sales_agent_invalid_json")
              /\ sPc' = "done"
              /\ UNCHANGED sPayload
         ELSE /\ sPayload' = payload
              /\ sPc' = "parse"
              /\ UNCHANGED sOut
    /\ UNCHANGED <<sCands, sLastErr>>
    /\ UNCHANGED routerVars
    /\ UNCHANGED apiVars
    /\ UNCHANGED rlVars
    /\ UNCHANGED fnVars
    /\ UNCHANGED <<cacheVars, authVars>>

\* the first _parse_sales_payload: return its result, or keep the error as
\* last_error and go on to the sales repair
SalesParse ==
    /\ sPc = "parse"
    /\ LET res == _parse_sales_payload(Val(sPayload), sCands) IN
       IF res.kind = "return"
       THEN /\ sOut' = res
            /\ sPc' = "done"
            /\ UNCHANGED <<sPayload, sLastErr>>
       ELSE /\ sLastErr' = res.msg
            /\ sPayload' = NoneV
            /\ sPc' = "repair_sales"
            /\ UNCHANGED sOut
    /\ UNCHANGED <<sCands, sCalls>>
    /\ UNCHANGED routerVars
    /\ UNCHANGED apiVars
    /\ UNCHANGED rlVars
    /\ UNCHANGED fnVars
    /\ UNCHANGED <<cacheVars, authVars>>

\* _repair_sales_payload and the second parse: any exception raises
\* SalesAgentError(str(last_error))
SalesRepairSales ==
    /\ sPc = "repair_sales"
    /\ sCalls' = Append(sCalls, "repair_sales")
    /\ \E beh \in LLMBehaviours :
         LET r == CallAndLoad(beh)
             payload == IF r.kind = "raise" THEN NoneV ELSE r.payload
             res == IF IsNone(payload) THEN Err(sLastErr)
                    ELSE _parse_sales_payload(Val(payload), sCands) IN
         IF res.kind = "return"
         THEN /\ sOut' = res
              /\ sPayload' = payload
         ELSE /\ sOut' = Err(sLastErr)
              /\ UNCHANGED sPayload
    /\ sPc' = "done"
    /\ UNCHANGED <<sCands, sLastErr>>
    /\ UNCHANGED routerVars
    /\ UNCHANGED apiVars
    /\ UNCHANGED rlVars
    /\ UNCHANGED fnVars
    /\ UNCHANGED <<cacheVars, authVars>>

NextSales ==
    \/ SalesPrimary
    \/ SalesRetry
    \/ SalesRepairJson
    \/ SalesParse
    \/ SalesRepairSales

SpecSales == InitSales /\ [][NextSales]_vars

(***************************************************************************)
(* Inputs of the API specification                                         *)
(***************************************************************************)
MaxCalls == 2     \* handler invocations in one behaviour

\* current_user.id as get_current_user yields it: the anonymous user 0 when
\* AUTH_ENABLED is false, the id of a row of table "users" otherwise
CurrentUserId == IF authEnabled THEN 1 ELSE 0

\* what log_run measures, in ms
LatencyValues == {0, 120}

AppIds == {"wx", "ghost"}

ExecuteRequest(app_id, require_citations, client_id) ==
    [app_id |-> app_id, require_citations |-> require_citations,
     client_id |-> client_id]

\* requests to an app with and without citation support, to the app without
\* executor_url and to an app that is not in the catalog
ExecuteRequests ==
    {ExecuteRequest("wx", TRUE, Some("c1")),
     ExecuteRequest("wx", FALSE, NoneV),
     ExecuteRequest("calc", TRUE, Some("c1")),
     ExecuteRequest("nourl", TRUE, NoneV),
     ExecuteRequest("ghost", FALSE, Some("c1"))}

\* bodies a provider may answer with: a JSON array, JSON null, and objects
\* with and without the evidence fields
ProviderPayloads ==
    {JList(<<JStr(<<"a">>)>>),
     JNull,
     JObj([answer |-> JStr(<<"a">>)]),
     JObj([answer |-> JStr(<<"a">>), citations |-> JList(<<JStr(<<"u">>)>>),
           retrieved_at |-> JStr(<<"t">>)]),
     JObj([citations |-> JList(<<JStr(<<"u">>)>>), retrieved_at |-> JNull]),
     JObj([citations |-> JNull, retrieved_at |-> JStr(<<"t">>)])}

AttError(exc) == [a |-> "error", exc |-> exc]
AttResponse(status, body) == [a |-> "response", status |-> status, body |-> body]

Transients == {AttError("TimeoutException"), AttError("ConnectError")}

\* attempts that end execute_http: an error status, a body that is no JSON,
\* a JSON body
Finals ==
    {AttResponse(500, [t |-> "text"]), AttResponse(200, [t |-> "text"])}
    \cup {AttResponse(200, [t |-> "json", p |-> pl]) : pl \in ProviderPayloads}

\* what the provider does on the attempts of one call: an attempt that is
\* not retried, or two transient failures and then a third one or an answer
ProviderScripts ==
    {<<f>> : f \in Finals}
    \cup {<<t, AttError("TimeoutException"), x>> :
              t \in Transients,
              x \in Transients
                    \cup {AttResponse(200, [t |-> "json",
                                            p |-> JObj([answer |-> JStr(<<"a">>)])])}}

ShopRequests ==
    [required_capabilities : {{"weather"}},
     constraints : [citations_required : {TRUE}, freshness : {NoneV},
                    max_latency_ms : {NoneV}, max_cost_usd : {NoneV}],
     client_id : {Some("c1")}]

\* the relevance of the task to each catalog row: to none or to all of them
ShopRels == {[i \in 1..Len(Catalog) |-> v] : v \in RelValues}

\* the LLM backend at the time of a /shop request
LLMStates == {"up", "unreachable"}

AppCreates ==
    {[id |-> id, capabilities |-> {"weather"}, freshness |-> "static",
      citations_supported |-> TRUE, latency_est_ms |-> 500, cost_est_usd |-> 0,
      executor_type |-> "http_api", executor_url |-> "http://new"] :
        id \in {"wx", "newapp"}}

\* the manifest files found at a start of the application, sorted by path:
\* the ones the catalog was built from, or an edited wx, a manifest that
\* AppCreate refuses and a new app
ManifestSets ==
    {Catalog,
     <<[Catalog[1] EXCEPT !.executor_url = "http://wx2", !.latency_est_ms = 300],
       [Catalog[2] EXCEPT !.latency_est_ms = 0],
       [Catalog[2] EXCEPT !.id = "fx"]>>}

(***************************************************************************)
(* Specification of the API: one action per handler                        *)
(***************************************************************************)
Init ==
    /\ authEnabled \in BOOLEAN
    /\ catalog = Catalog
    /\ runs = << >>
    /\ usage = 0
    /\ messages = << >>
    /\ nCalls = 0
    /\ call = NoCall
    /\ resp = NoCall
    /\ RouterIdle
    /\ SalesIdle
    /\ RateIdle
    /\ FnIdle
    /\ CacheIdle
    /\ AuthIdle

\* the UsageRecord that shop and execute write for an authenticated user
LogUsage(current_user_id) == IF current_user_id > 0 THEN usage + 1 ELSE usage

\* POST /execute
Execute ==
    /\ nCalls < MaxCalls
    /\ \E req \in ExecuteRequests, script \in ProviderScripts,
          latency_ms \in LatencyValues :
          LET o == execute(catalog, runs, messages, req, script, latency_ms) IN
          /\ usage' = LogUsage(CurrentUserId)
          /\ runs' = o.runs
          /\ messages' = o.messages
          /\ resp' = o.resp
          /\ call' = [kind |-> "execute", req |-> req, http |-> o.http]
    /\ nCalls' = nCalls + 1
    /\ UNCHANGED <<authEnabled, catalog>>
    /\ UNCHANGED routerVars
    /\ UNCHANGED salesVars
    /\ UNCHANGED rlVars
    /\ UNCHANGED fnVars
    /\ UNCHANGED <<cacheVars, authVars>>

\* POST /shop
Shop ==
    /\ nCalls < MaxCalls
    /\ \E req \in ShopRequests, rels \in ShopRels, llm \in LLMStates :
          /\ usage' = LogUsage(CurrentUserId)
          /\ resp' = shop(catalog, runs, req, rels)
          /\ call' = [kind |-> "shop", req |-> req, rels |-> rels,
                      llm |-> llm, apps |-> ShopApps(catalog, runs)]
    /\ nCalls' = nCalls + 1
    /\ UNCHANGED <<authEnabled, catalog, runs, messages>>
    /\ UNCHANGED routerVars
    /\ UNCHANGED salesVars
    /\ UNCHANGED rlVars
    /\ UNCHANGED fnVars
    /\ UNCHANGED <<cacheVars, authVars>>

\* GET /runs
ListRuns ==
    /\ nCalls < MaxCalls
    /\ resp' = [kind |-> "return", body |-> list_runs(runs)]
    /\ call' = [kind |-> "list_runs"]
    /\ nCalls' = nCalls + 1
    /\ UNCHANGED <<authEnabled, catalog, runs, usage, messages>>
    /\ UNCHANGED routerVars
    /\ UNCHANGED salesVars
    /\ UNCHANGED rlVars
    /\ UNCHANGED fnVars
    /\ UNCHANGED <<cacheVars, authVars>>

\* GET /runs/{run_id}
GetRun ==
    /\ nCalls < MaxCalls
    /\ \E run_id \in 1..MaxCalls :
          /\ resp' = get_run(runs, run_id)
          /\ call' = [kind |-> "get_run", run_id |-> run_id]
    /\ nCalls' = nCalls + 1
    /\ UNCHANGED <<authEnabled, catalog, runs, usage, messages>>
    /\ UNCHANGED routerVars
    /\ UNCHANGED salesVars
    /\ UNCHANGED rlVars
    /\ UNCHANGED fnVars
    /\ UNCHANGED <<cacheVars, authVars>>

\* GET /trust
ListTrust ==
    /\ nCalls < MaxCalls
    /\ resp' = [kind |-> "return", body |-> list_trust(catalog, runs)]
    /\ call' = [kind |-> "list_trust"]
    /\ nCalls' = nCalls + 1
    /\ UNCHANGED <<authEnabled, catalog, runs, usage, messages>>
    /\ UNCHANGED routerVars
    /\ UNCHANGED salesVars
    /\ UNCHANGED rlVars
    /\ UNCHANGED fnVars
    /\ UNCHANGED <<cacheVars, authVars>>

\* GET /apps/{app_id}/trust
AppTrust ==
    /\ nCalls < MaxCalls
    /\ \E app_id \in AppIds :
          /\ resp' = app_trust(catalog, runs, app_id)
          /\ call' = [kind |-> "app_trust", app_id |-> app_id]
    /\ nCalls' = nCalls + 1
    /\ UNCHANGED <<authEnabled, catalog, runs, usage, messages>>
    /\ UNCHANGED routerVars
    /\ UNCHANGED salesVars
    /\ UNCHANGED rlVars
    /\ UNCHANGED fnVars
    /\ UNCHANGED <<cacheVars, authVars>>

\* POST /apps
CreateApp ==
    /\ nCalls < MaxCalls
    /\ \E app_in \in AppCreates :
          LET o == create_app(catalog, app_in) IN
          /\ catalog' = o.catalog
          /\ resp' = o.resp
          /\ call' = [kind |-> "create_app", app_in |-> app_in]
    /\ nCalls' = nCalls + 1
    /\ UNCHANGED <<authEnabled, runs, usage, messages>>
    /\ UNCHANGED routerVars
    /\ UNCHANGED salesVars
    /\ UNCHANGED rlVars
    /\ UNCHANGED fnVars
    /\ UNCHANGED <<cacheVars, authVars>>

\* PUT /apps/{app_id}
UpsertApp ==
    /\ nCalls < MaxCalls
    /\ \E app_id \in {"wx"}, app_in \in AppCreates :
          LET o == upsert_app(catalog, app_id, app_in) IN
          /\ catalog' = o.catalog
          /\ resp' = o.resp
          /\ call' = [kind |-> "upsert_app", app_id |-> app_id, app_in |-> app_in]
    /\ nCalls' = nCalls + 1
    /\ UNCHANGED <<authEnabled, runs, usage, messages>>
    /\ UNCHANGED routerVars
    /\ UNCHANGED salesVars
    /\ UNCHANGED rlVars
    /\ UNCHANGED fnVars
    /\ UNCHANGED <<cacheVars, authVars>>

\* a restart of the application: lifespan calls bootstrap_manifests
Bootstrap ==
    /\ nCalls < MaxCalls
    /\ \E manifests \in ManifestSets :
          /\ catalog' = bootstrap_manifests(catalog, manifests, 1)
          /\ resp' = [kind |-> "return"]
          /\ call' = [kind |-> "bootstrap", manifests |-> manifests]
    /\ nCalls' = nCalls + 1
    /\ UNCHANGED <<authEnabled, runs, usage, messages>>
    /\ UNCHANGED routerVars
    /\ UNCHANGED salesVars
    /\ UNCHANGED rlVars
    /\ UNCHANGED fnVars
    /\ UNCHANGED <<cacheVars, authVars>>

Next ==
    \/ Execute
    \/ Shop
    \/ ListRuns
    \/ GetRun
    \/ ListTrust
    \/ AppTrust
    \/ CreateApp
    \/ UpsertApp
    \/ Bootstrap

Spec == Init /\ [][Next]_vars

(***************************************************************************)
(* Claims on the sales agent                                               *)
(***************************************************************************)

\* the app ids of the candidates passed in
CandIds == {sCands[i].app_id : i \in 1..Len(sCands)}

\* the app ids of the recommendations in the result
OutRecIds == {sOut.recommendations[i].app_id : i \in 1..Len(sOut.recommendations)}

\* C2: in every result sales_recommendation returns, each recommendation's
\* app_id and a final_choice other than NO_MATCH is the app_id of a candidate
\* passed in, and a result whose final_choice is NO_MATCH has no
\* recommendations.
C2_IdIntegrity ==
    (sOut.kind = "return") =>
        /\ OutRecIds \subseteq CandIds
        /\ (sOut.final_choice # NO_MATCH => sOut.final_choice \in CandIds)
        /\ (sOut.final_choice = NO_MATCH => sOut.recommendations = << >>)

\* C3: a returned result other than NO_MATCH has 1 to 3 recommendations with
\* pairwise distinct app ids and a final_choice among them; when the emitted
\* final_choice does not resolve, or resolves outside the recommendations,
\* the final_choice is the first recommendation's app id.
C3_RecommendationShape ==
    (sOut.kind = "return" /\ sOut.final_choice # NO_MATCH) =>
        LET recs == sOut.recommendations
            emitted == _resolve_app_id(
                          _coerce_choice(Get(Val(sPayload), "final_choice")),
                          ValidIds(sCands), NameMap(sCands))
        IN /\ Len(recs) >= 1 /\ Len(recs) <= 3
           /\ \A i, j \in 1..Len(recs) : i # j => recs[i].app_id # recs[j].app_id
           /\ sOut.final_choice \in OutRecIds
           /\ (IsNone(emitted) \/ Val(emitted) \notin OutRecIds)
                 => sOut.final_choice = recs[1].app_id

\* C3 witness: a result with two recommendations was returned although the
\* emitted final_choice resolved to a candidate that is neither of them; the
\* first one was chosen.
C3_Witness ==
    /\ sOut.kind = "return"
    /\ sOut.final_choice # NO_MATCH
    /\ Len(sOut.recommendations) = 2
    /\ LET emitted == _resolve_app_id(
                          _coerce_choice(Get(Val(sPayload), "final_choice")),
                          ValidIds(sCands), NameMap(sCands))
       IN /\ ~IsNone(emitted)
          /\ Val(emitted) \notin OutRecIds
    /\ sOut.final_choice = sOut.recommendations[1].app_id

\* C4: sales_recommendation returns a result or raises SalesAgentError; no
\* other exception type leaves it, whatever the backend does at any stage.
C4_OnlyTypedError ==
    (sOut.kind = "raise") => sOut.exc = "SalesAgentError"

(***************************************************************************)
(* Claims on the router                                                    *)
(***************************************************************************)

\* the app dict of rApps with the given id
AppById(id) == CHOOSE a \in {rApps[i] : i \in 1..Len(rApps)} : a.id = id

\* a violates one of the four hard constraints of c, as the claim words them
ViolatesHardFilter(c, a) ==
    \/ (~IsNone(c.freshness) /\ a.freshness # Val(c.freshness))
    \/ (c.citations_required /\ ~a.citations_supported)
    \/ (~IsNone(c.max_latency_ms) /\ ~(a.latency_est_ms <= Val(c.max_latency_ms)))
    \/ (~IsNone(c.max_cost_usd) /\ ~(a.cost_est_usd <= Val(c.max_cost_usd)))

\* C1: no candidate that violates a hard filter (freshness, citations,
\* max latency, max cost) appears in the ranked list recommend() returns.
C1_HardFiltersExclude ==
    (rOut.kind = "ok") =>
        \A i \in 1..Len(rOut.recs) :
            ~ViolatesHardFilter(rReq.constraints, AppById(rOut.recs[i].app_id))

\* C1 witness: a call returned a non-empty ranking while a candidate of the
\* input list violated a hard filter and was left out.
C1_Witness ==
    /\ rOut.kind = "ok"
    /\ Len(rOut.recs) >= 1
    /\ \E i \in 1..Len(rApps) :
          /\ ViolatesHardFilter(rReq.constraints, rApps[i])
          /\ \A j \in 1..Len(rOut.recs) : rOut.recs[j].app_id # rApps[i].id

\* a value of [0,1] in units of 1/SCALE
InUnit(x) == x >= 0 /\ x <= SCALE

\* C11: for a request the Constraints model accepts and every app that passes
\* the hard filters, recommend() computes the capability, latency, cost, trust
\* and relevance scores and the composite score, and each lies in [0,1].
C11_ScoresInUnitInterval ==
    (rOut.kind # "nocall") =>
        /\ rOut.kind = "ok"
        /\ \A i \in 1..Len(rOut.recs) :
              /\ InUnit(rOut.recs[i].cap) /\ InUnit(rOut.recs[i].lat)
              /\ InUnit(rOut.recs[i].cost) /\ InUnit(rOut.recs[i].trust)
              /\ InUnit(rOut.recs[i].rel) /\ InUnit(rOut.recs[i].score)
        /\ LET idx == FilterIdx(rReq.constraints, rApps, 1) IN
           \A j \in 1..Len(idx) :
              LET a == rApps[idx[j]]
                  lat == _latency_score(a.latency_est_ms,
                                        rReq.constraints.max_latency_ms)
              IN /\ lat.kind = "ok"
                 /\ InUnit(lat.v)
                 /\ InUnit(_cost_score(a.cost_est_usd, rReq.constraints.max_cost_usd))
                 /\ InUnit(_capability_match(
                               _norm_capabilities(rReq.required_capabilities),
                               _norm_capabilities(a.capabilities)))
                 /\ InUnit(TrustOf(a))

(***************************************************************************)
(* Claims on the API                                                       *)
(***************************************************************************)

\* require_citations as the execute handler computes it for a request
RequireCitationsOf(req) ==
    LET app_row == GetApp(catalog, req.app_id)
    IN IF IsNone(app_row) THEN TRUE
       ELSE req.require_citations /\ Val(app_row).citations_supported

\* the router of core/router.py ranks at least one app for the /shop request
RouterRanksSome ==
    LET r == recommend(call.req, call.apps, Len(call.apps), call.rels)
    IN r.kind = "ok" /\ r.recs # << >>

\* C5: every /shop request that got past authentication and rate limiting
\* ends in a returned ShopResponse whose status is OK or NO_MATCH; it never
\* ends in an exception.
C5_ShopAlwaysStructured ==
    (call.kind = "shop") =>
        (resp.kind = "return" /\ resp.status \in {"OK", "NO_MATCH"})

C7_OneRunPerExecute ==
    [][(call'.kind = "execute" /\ nCalls' = nCalls + 1)
          => Len(runs') = Len(runs) + 1]_vars

\* C8: when execute_http raises (retries used up, a status that is not 2xx, a
\* body that is not JSON) the handler returns an ExecuteResponse with ok false
\* and a non-empty validation_errors, and the run it recorded has ok false
\* and the same error list, which carries the cause.
C8_ProviderFailureRecorded ==
    (call.kind = "execute" /\ call.http.kind = "raise") =>
        /\ resp.kind = "return"
        /\ resp.ok = FALSE
        /\ resp.validation_errors = <<ExecutionFailed(call.http.exc)>>
        /\ resp.run_id = Len(runs)
        /\ runs[resp.run_id].ok = FALSE
        /\ runs[resp.run_id].errors = resp.validation_errors

\* C8 witness: the provider timed out on all three attempts and the handler
\* returned ok false with the run recorded.
C8_Witness ==
    /\ call.kind = "execute"
    /\ call.http.kind = "raise"
    /\ call.http.exc = "TimeoutException"
    /\ call.http.attempts = StopAfterAttempt
    /\ resp.kind = "return"
    /\ resp.ok = FALSE
    /\ runs[Len(runs)].errors = <<ExecutionFailed("TimeoutException")>>

\* C9: when the provider answered and validate_output reports errors (also
\* for a payload that is JSON but no object) the handler returns an
\* ExecuteResponse with ok false and exactly those errors and the recorded
\* run has ok false; and a response with ok true comes only with zero
\* validator errors and a recorded run with ok true.
C9_ValidationOutcome ==
    /\ (call.kind = "execute" /\ call.http.kind = "return"
        /\ validate_output(call.http.payload, RequireCitationsOf(call.req)) # << >>)
          => /\ resp.kind = "return"
             /\ resp.ok = FALSE
             /\ resp.validation_errors
                   = validate_output(call.http.payload, RequireCitationsOf(call.req))
             /\ runs[resp.run_id].ok = FALSE
    /\ (call.kind = "execute" /\ resp.kind = "return" /\ resp.ok)
          => /\ call.http.kind = "return"
             /\ validate_output(call.http.payload, RequireCitationsOf(call.req)) = << >>
             /\ runs[resp.run_id].ok

\* C10: no API call deletes or changes a row of the table of runs: after
\* every step the old table is a prefix of the new one.
C10_LedgerAppendOnly ==
    [][/\ Len(runs') >= Len(runs)
       /\ SubSeq(runs', 1, Len(runs)) = runs]_vars

\* C10 witness: with one run recorded, a second /execute recorded another
\* one and the first row is still there.
C10_Witness ==
    /\ Len(runs) = 2
    /\ call.kind = "execute"
    /\ runs[1].id = 1
    /\ runs[2].id = 2

\* no row of the table of runs has the given app id
HasNoRuns(app_id) == \A i \in 1..Len(runs) : runs[i].app_id # app_id

\* C12: whatever runs other apps have, a catalog app without runs gets
\* trust_score 0.5 and insufficient_data true from GET /trust and from
\* GET /apps/{id}/trust, and the router ranks the app dict that the shop
\* handler builds for it with trust 0.5.
C12_NoRunsNeutralTrust ==
    /\ (call.kind = "list_trust") =>
          \A i \in 1..Len(catalog) :
             HasNoRuns(catalog[i].id) =>
                /\ resp.body[i].app_id = catalog[i].id
                /\ resp.body[i].trust_score = SCALE \div 2
                /\ resp.body[i].insufficient_data
    /\ (call.kind = "app_trust" /\ HasNoRuns(call.app_id)
        /\ ~IsNone(GetApp(catalog, call.app_id))) =>
          /\ resp.kind = "return"
          /\ resp.body.trust_score = SCALE \div 2
          /\ resp.body.insufficient_data
    /\ (call.kind = "shop") =>
          LET r == recommend(call.req, call.apps, Len(call.apps), call.rels) IN
          /\ \A i \in 1..Len(call.apps) :
                HasNoRuns(call.apps[i].id) => TrustOf(call.apps[i]) = SCALE \div 2
          /\ (r.kind = "ok") =>
                \A j \in 1..Len(r.recs) :
                   HasNoRuns(r.recs[j].app_id) => r.recs[j].trust = SCALE \div 2

\* C12 witness: GET /trust while app wx has a run and app calc has none: the
\* entry of calc is the neutral one, the entry of wx is computed.
C12_Witness ==
    /\ call.kind = "list_trust"
    /\ ~HasNoRuns("wx")
    /\ HasNoRuns("calc")
    /\ \E i \in 1..Len(resp.body) :
          /\ resp.body[i].app_id = "calc"
          /\ resp.body[i].trust_score = SCALE \div 2
          /\ resp.body[i].insufficient_data
    /\ \E i \in 1..Len(resp.body) :
          /\ resp.body[i].app_id = "wx"
          /\ resp.body[i].total_runs = 1
          /\ ~resp.body[i].insufficient_data

(***************************************************************************)
(* Specification of the trust aggregation: _trust_scores_by_app over a     *)
(* ledger of runs                                                          *)
(***************************************************************************)
MaxLedger == 3

LedgerLatencies == {0, 120, 3000}

\* the columns of a Run row that the aggregation reads
LedgerRows ==
    [app_id : {"wx", "calc"}, ok : BOOLEAN, require_citations : BOOLEAN,
     latency_ms : LedgerLatencies]

Ledgers == UNION {[1..n -> LedgerRows] : n \in 0..MaxLedger}

InitTrust ==
    /\ fnArgs \in Ledgers
    /\ fnOut = NoCall
    /\ RouterIdle
    /\ SalesIdle
    /\ ApiIdle
    /\ RateIdle
    /\ CacheIdle
    /\ AuthIdle

TrustScores ==
    /\ fnOut = NoCall
    /\ fnOut' = [kind |-> "ok", scores |-> _trust_scores_by_app(fnArgs)]
    /\ UNCHANGED fnArgs
    /\ UNCHANGED <<routerVars, salesVars, apiVars, rlVars, cacheVars, authVars>>

NextTrust == TrustScores

SpecTrust == InitTrust /\ [][NextTrust]_vars

\* the TrustOut that the trust endpoints give for an app: the aggregated one,
\* or the neutral one when the app has no runs
TrustFor(scores, app_id) ==
    IF app_id \in DOMAIN scores THEN scores[app_id] ELSE NoRunsTrust(app_id)

\* C13: for every app and every content of the ledger (runs that succeeded or
\* failed, with or without the citation requirement, with any latency >= 0),
\* the trust score that _trust_scores_by_app computes lies in [0,1].
C13_TrustInUnitInterval ==
    (fnOut.kind = "ok") =>
        \A app_id \in {"wx", "calc"} :
            /\ InUnit(TrustFor(fnOut.scores, app_id).trust_score)
            /\ (app_id \in DOMAIN fnOut.scores) =>
                  fnOut.scores[app_id].total_runs = Len(RunsOf(fnArgs, app_id))

\* C13 witness: an app with a run that succeeded and a run that failed, one of
\* them under the citation requirement, gets a trust score inside (0,1).
C13_Witness ==
    /\ fnOut.kind = "ok"
    /\ "wx" \in DOMAIN fnOut.scores
    /\ \E i, j \in 1..Len(fnArgs) :
          /\ fnArgs[i].app_id = "wx" /\ fnArgs[i].ok /\ fnArgs[i].require_citations
          /\ fnArgs[j].app_id = "wx" /\ ~fnArgs[j].ok /\ ~fnArgs[j].require_citations
          /\ fnArgs[j].latency_ms = 3000
    /\ fnOut.scores["wx"].trust_score > 0
    /\ fnOut.scores["wx"].trust_score < SCALE

(***************************************************************************)
(* Specification of the rate limiter: calls of check_rate_limit, one after *)
(* the other, while time passes                                            *)
(***************************************************************************)
MaxRequests == 4
MaxTime == 82

\* the steps of the clock, in minutes
Advances == {20, 41}

\* the settings: the limits are read from the environment (the tests set 5,
\* 10 and 20)
RateSettings ==
    {[RATE_LIMIT_ENABLED |-> e, RATE_LIMIT_FREE_TIER_PER_HOUR |-> f,
      RATE_LIMIT_STARTER_TIER_PER_HOUR |-> f + 1,
      RATE_LIMIT_PRO_TIER_PER_HOUR |-> f + 2] : e \in BOOLEAN, f \in {1, 2}}

RateUsers == {[id |-> 1, tier |-> "free"], [id |-> 2, tier |-> "gold"]}

InitRate ==
    /\ settings \in RateSettings
    /\ now = 0
    /\ rate_limits = << >>
    /\ admitted = << >>
    /\ rlCall = NoCall
    /\ rlResp = NoCall
    /\ RouterIdle
    /\ SalesIdle
    /\ ApiIdle
    /\ FnIdle
    /\ CacheIdle
    /\ AuthIdle

\* the number of calls of check_rate_limit so far
RateCalls == IF rlCall.kind = "nocall" THEN 0 ELSE rlCall.n

\* one request: check_rate_limit(db, current_user)
CheckRateLimit ==
    /\ RateCalls < MaxRequests
    /\ \E user \in RateUsers :
          LET r == check_rate_limit(settings, rate_limits, user, now) IN
          /\ rate_limits' = r.table
          /\ rlResp' = r.resp
          /\ rlCall' = [kind |-> "check", user |-> user, at |-> now,
                        n |-> RateCalls + 1]
          /\ admitted' = IF r.resp.kind = "return"
                         THEN Append(admitted, [user |-> user, at |-> now])
                         ELSE admitted
    /\ UNCHANGED <<settings, now>>
    /\ UNCHANGED <<routerVars, salesVars, apiVars, fnVars, cacheVars, authVars>>

\* time passes
Tick ==
    /\ \E d \in Advances :
          /\ now + d <= MaxTime
          /\ now' = now + d
    /\ UNCHANGED <<settings, rate_limits, admitted, rlCall, rlResp>>
    /\ UNCHANGED <<routerVars, salesVars, apiVars, fnVars, cacheVars, authVars>>

NextRate == CheckRateLimit \/ Tick

SpecRate == InitRate /\ [][NextRate]_vars

\* the calls of the user that were let through at an instant in [from, to)
AdmittedIn(user, from, to) ==
    {j \in 1..Len(admitted) :
        admitted[j].user = user /\ admitted[j].at >= from /\ admitted[j].at < to}

\* C14: with rate limiting on, in every interval of 60 minutes the number of
\* requests of one user that check_rate_limit lets through is at most the
\* limit of the tier of the user.
C14_SlidingWindowLimit ==
    settings.RATE_LIMIT_ENABLED =>
        \A i \in 1..Len(admitted) :
            Cardinality(AdmittedIn(admitted[i].user, admitted[i].at,
                                   admitted[i].at + WindowMinutes))
                <= TierLimit(settings, admitted[i].user.tier)

\* the record of the user whose window holds the instant t, None when none
CurrentRecord(user, t) ==
    LET r == FirstRecord(rate_limits, user, "global", [at |-> t - WindowMinutes, aware |-> TRUE])
    IN IF IsNone(r) THEN NoneV ELSE Some(rate_limits[Val(r)])

\* C15: with rate limiting on and a limit L >= 1, counting from the request
\* that creates the record of a user: the first L requests made within 60
\* minutes are let through and the record's request_count is i after the i-th
\* of them; the next one is refused with HTTP 429 and X-RateLimit-Remaining
\* "0"; a tier that TIER_LIMITS does not know has the limit of the free tier.
C15_FirstLAdmittedThenRejected ==
    (rlCall.kind = "check" /\ settings.RATE_LIMIT_ENABLED) =>
        LET user == rlCall.user
            L == IF user.tier = "gold" THEN settings.RATE_LIMIT_FREE_TIER_PER_HOUR
                 ELSE TIER_LIMITS(settings)[user.tier]
            rec == CurrentRecord(user, rlCall.at)
            N == IF IsNone(rec) THEN 0
                 ELSE Cardinality(AdmittedIn(user, Val(rec).window_start.at, rlCall.at + 1))
        IN /\ ~IsNone(rec)
           /\ N <= L
           /\ (rlResp.kind = "return") => Val(rec).request_count = N
           /\ (rlResp.kind # "return") =>
                 /\ N = L
                 /\ rlResp.exc = "HTTPException"
                 /\ rlResp.status_code = 429
                 /\ rlResp.XRateLimitRemaining = "0"

(***************************************************************************)
(* Specification of the executor: execute_http against a provider whose    *)
(* behaviour on each attempt is given                                      *)
(***************************************************************************)
\* what a provider can do on one attempt
AttemptOutcomes ==
    Transients
    \cup {AttError("ReadError"),
          AttResponse(500, [t |-> "text"]),
          AttResponse(404, [t |-> "json", p |-> JObj([detail |-> JStr(<<"n">>)])]),
          AttResponse(200, [t |-> "text"]),
          AttResponse(200, [t |-> "json", p |-> JObj([answer |-> JStr(<<"a">>)])])}

\* the provider's behaviour on the attempts, one more than the retry policy
\* allows
HttpScripts == [1..(StopAfterAttempt + 1) -> AttemptOutcomes]

InitHttp ==
    /\ fnArgs \in HttpScripts
    /\ fnOut = NoCall
    /\ RouterIdle
    /\ SalesIdle
    /\ ApiIdle
    /\ RateIdle
    /\ CacheIdle
    /\ AuthIdle

ExecuteHttp ==
    /\ fnOut = NoCall
    /\ fnOut' = execute_http(fnArgs, 1)
    /\ UNCHANGED fnArgs
    /\ UNCHANGED <<routerVars, salesVars, apiVars, rlVars, cacheVars, authVars>>

NextHttp == ExecuteHttp

SpecHttp == InitHttp /\ [][NextHttp]_vars

IsTransient(att) == att.a = "error" /\ att.exc \in {"TimeoutException", "ConnectError"}

IsErrorStatus(att) == att.a = "response" /\ att.status >= 400

\* C16: one call of execute_http makes at most 3 attempts; every attempt
\* before the last one ended in a timeout or a connection failure; an attempt
\* that is answered with an HTTP error status is the last one and its error
\* is raised; when the third attempt also fails the same way, its error is
\* raised.
C16_BoundedRetry ==
    (fnOut.kind # "nocall") =>
        LET n == fnOut.attempts IN
        /\ n \in 1..3
        /\ \A i \in 1..(n - 1) : IsTransient(fnArgs[i])
        /\ (n < 3) => ~IsTransient(fnArgs[n])
        /\ IsErrorStatus(fnArgs[n]) =>
              (fnOut.kind = "raise" /\ fnOut.exc = "HTTPStatusError")
        /\ IsTransient(fnArgs[n]) =>
              (n = 3 /\ fnOut.kind = "raise" /\ fnOut.exc = fnArgs[3].exc)
        /\ (fnArgs[n].a = "response" /\ fnArgs[n].status = 200
            /\ fnArgs[n].body.t = "json") =>
              (fnOut.kind = "return" /\ fnOut.payload = fnArgs[n].body.p)

\* C16 witnesses: an error status on the second attempt, after a timeout, ends
\* the call there although a third attempt would have succeeded
C16_Witness ==
    /\ fnOut.kind = "raise"
    /\ fnOut.exc = "HTTPStatusError"
    /\ fnOut.attempts = 2
    /\ IsTransient(fnArgs[1])
    /\ fnArgs[2].a = "response" /\ fnArgs[2].status = 500
    /\ fnArgs[3].a = "response" /\ fnArgs[3].status = 200

(***************************************************************************)
(* Specification of the capability extractor: extract_capabilities and     *)
(* _heuristic_caps on a task, under one behaviour of the LLM backend       *)
(***************************************************************************)
\* the task strings
Tasks ==
    {<< >>,
     <<"h", "e", "l", "l", "o", " ", "t", "h", "e", "r", "e">>,
     <<"W", "e", "a", "t", "h", "e", "r", " ", "f", "o", "r", "e", "c", "a", "s", "t", " ", "N", "O", "W">>,
     <<"C", "i", "t", "e", " ", "C", "P", "I", " ", "s", "o", "u", "r", "c", "e", "s">>,
     <<"w", "e", "a", "t", "h", "e", "r", " ", "r", "a", "i", "n", " ", "w", "i", "n", "d">>}

\* the JSON values that the text of the LLM parses to
CapPayloads ==
    {JObj([capabilities |->
              JList(<<JStr(<<" ", "W", "e", "a", "t", "h", "e", "r", " ">>), JStr(<<"w", "e", "a", "t", "h", "e", "r">>),
                      JStr(<<"h", "a", "c", "k", "i", "n", "g">>), JNum, JStr(<<" ">>)>>)]),
     JObj([capabilities |->
              JList(<<JStr(Tag_citations), JStr(Tag_realtime),
                      JStr(<<"R", "E", "A", "L", "T", "I", "M", "E">>)>>)]),
     JObj([capabilities |-> JStr(<<"w", "e", "a", "t", "h", "e", "r">>)]),
     JObj([capabilities |-> JNull]),
     JObj([tags |-> JList(<<JStr(<<"m", "a", "t", "h">>)>>)]),
     JList(<<JStr(<<"w", "e", "a", "t", "h", "e", "r">>)>>)}

\* what the LLM backend does on the call
CapBehaviours ==
    {[b |-> x] : x \in {"connection_error", "timeout", "http_error", "bad_body"}}
    \cup {[b |-> "reply", raw |-> [t |-> "text"]]}
    \cup {[b |-> "reply", raw |-> [t |-> "json", p |-> pl]] : pl \in CapPayloads}

InitCaps ==
    /\ fnArgs \in [task : Tasks, force_citations : BOOLEAN, llm : CapBehaviours]
    /\ fnOut = NoCall
    /\ RouterIdle
    /\ SalesIdle
    /\ ApiIdle
    /\ RateIdle
    /\ CacheIdle
    /\ AuthIdle

ExtractCapabilities ==
    /\ fnOut = NoCall
    /\ fnOut' = extract_capabilities(fnArgs.task, fnArgs.force_citations, fnArgs.llm)
                    @@ [fn |-> "extract_capabilities"]
    /\ UNCHANGED fnArgs
    /\ UNCHANGED <<routerVars, salesVars, apiVars, rlVars, cacheVars, authVars>>

HeuristicCaps ==
    /\ fnOut = NoCall
    /\ fnOut' = [kind |-> "return", fn |-> "_heuristic_caps",
                 caps |-> _heuristic_caps(fnArgs.task, fnArgs.force_citations)]
    /\ UNCHANGED fnArgs
    /\ UNCHANGED <<routerVars, salesVars, apiVars, rlVars, cacheVars, authVars>>

NextCaps == ExtractCapabilities \/ HeuristicCaps

SpecCaps == InitCaps /\ [][NextCaps]_vars

\* C17: the list that extract_capabilities or _heuristic_caps returns holds
\* only tags of ALLOWED_CAPS, holds no tag twice, and holds "citations" when
\* force_citations is true.
C17_CapsWellFormed ==
    (fnOut.kind = "return") =>
        /\ \A i \in 1..Len(fnOut.caps) : fnOut.caps[i] \in ALLOWED_CAPS
        /\ \A i, j \in 1..Len(fnOut.caps) : fnOut.caps[i] = fnOut.caps[j] => i = j
        /\ fnArgs.force_citations =>
              \E i \in 1..Len(fnOut.caps) : fnOut.caps[i] = Tag_citations

\* C17 witness: the LLM lists a tag twice (in two spellings), a tag outside
\* the vocabulary and values that are no tags, the task names the same tag and
\* asks for the latest, and citations are forced: the result is weather,
\* citations, realtime.
C17_Witness ==
    /\ fnOut.kind = "return"
    /\ fnOut.fn = "extract_capabilities"
    /\ fnArgs.force_citations
    /\ fnArgs.llm.b = "reply"
    /\ fnArgs.llm.raw.t = "json"
    /\ fnArgs.llm.raw.p.t = "obj"
    /\ "capabilities" \in DOMAIN fnArgs.llm.raw.p.f
    /\ fnArgs.llm.raw.p.f.capabilities.t = "list"
    /\ Len(fnArgs.llm.raw.p.f.capabilities.l) = 5
    /\ fnArgs.task = <<"W", "e", "a", "t", "h", "e", "r", " ", "f", "o", "r", "e", "c", "a", "s", "t", " ", "N", "O", "W">>
    /\ fnOut.caps = <<<<"w", "e", "a", "t", "h", "e", "r">>, Tag_citations, Tag_realtime>>

\* C18: extract_capabilities raises nothing, whatever the LLM backend does;
\* when the backend is unreachable, times out, answers with an HTTP error
\* status or a body that is no JSON, or when its text is no JSON or has a
\* capabilities field that is no list, the result is that of _heuristic_caps.
C18_NeverRaises ==
    (fnOut.kind # "nocall" /\ fnOut.fn = "extract_capabilities") =>
        /\ fnOut.kind = "return"
        /\ (\/ fnArgs.llm.b # "reply"
            \/ fnArgs.llm.raw.t # "json"
            \/ fnArgs.llm.raw.p.t # "obj"
            \/ ("capabilities" \in DOMAIN fnArgs.llm.raw.p.f
                /\ fnArgs.llm.raw.p.f.capabilities.t # "list")) =>
              fnOut.caps = _heuristic_caps(fnArgs.task, fnArgs.force_citations)

(***************************************************************************)
(* Specification of the validator: validate_output on one payload          *)
(***************************************************************************)
\* the values of the field citations; None: the payload has no such field
CitationsValues ==
    {NoneV, Some(JNull), Some(JList(<< >>)), Some(JStr(<<"u">>)),
     Some(JList(<<JStr(<<"u">>)>>)),
     Some(JList(<<JStr(<<"u">>), JStr(<<" ", "v">>)>>)),
     Some(JList(<<JStr(<< >>), JStr(<<" ", " ">>)>>)),
     Some(JList(<<JStr(<<"u">>), JNum>>))}

\* the values of the field retrieved_at; None: the payload has no such field
RetrievedAtValues ==
    {NoneV, Some(JNull), Some(JNum), Some(JStr(<<"t">>)), Some(JStr(<<" ", " ">>))}

\* the object with the field answer and the two optional fields
PayloadOf(cites, ts) ==
    LET keys == {"answer"}
                \cup (IF IsNone(cites) THEN {} ELSE {"citations"})
                \cup (IF IsNone(ts) THEN {} ELSE {"retrieved_at"})
    IN JObj([k \in keys |-> CASE k = "citations" -> Val(cites)
                              [] k = "retrieved_at" -> Val(ts)
                              [] OTHER -> JStr(<<"a">>)])

ValidatePayloads ==
    {PayloadOf(c, t) : c \in CitationsValues, t \in RetrievedAtValues}
    \cup {JStr(<<"n">>), JNull, JNum, JList(<<JStr(<<"u">>)>>)}

InitValidate ==
    /\ fnArgs \in [payload : ValidatePayloads, require_citations : BOOLEAN]
    /\ fnOut = NoCall
    /\ RouterIdle
    /\ SalesIdle
    /\ ApiIdle
    /\ RateIdle
    /\ CacheIdle
    /\ AuthIdle

ValidateOutput ==
    /\ fnOut = NoCall
    /\ fnOut' = [kind |-> "return",
                 errors |-> validate_output(fnArgs.payload, fnArgs.require_citations)]
    /\ UNCHANGED fnArgs
    /\ UNCHANGED <<routerVars, salesVars, apiVars, rlVars, cacheVars, authVars>>

NextValidate == ValidateOutput

SpecValidate == InitValidate /\ [][NextValidate]_vars

\* the characters of an error message of validate_output
MessageText(msg) ==
    CASE msg = "Provider output must be a JSON object." ->
            <<"P", "r", "o", "v", "i", "d", "e", "r", " ", "o", "u", "t",
              "p", "u", "t", " ", "m", "u", "s", "t", " ", "b", "e", " ",
              "a", " ", "J", "S", "O", "N", " ", "o", "b", "j", "e", "c",
              "t", ".">>
      [] msg = "Citations required but missing or invalid. Expected non-empty list field: citations: [str]." ->
            <<"C", "i", "t", "a", "t", "i", "o", "n", "s", " ", "r", "e",
              "q", "u", "i", "r", "e", "d", " ", "b", "u", "t", " ", "m",
              "i", "s", "s", "i", "n", "g", " ", "o", "r", " ", "i", "n",
              "v", "a", "l", "i", "d", ".", " ", "E", "x", "p", "e", "c",
              "t", "e", "d", " ", "n", "o", "n", "-", "e", "m", "p", "t",
              "y", " ", "l", "i", "s", "t", " ", "f", "i", "e", "l", "d",
              ":", " ", "c", "i", "t", "a", "t", "i", "o", "n", "s", ":",
              " ", "[", "s", "t", "r", "]", ".">>
      [] msg = "Citations required but retrieved_at timestamp is missing." ->
            <<"C", "i", "t", "a", "t", "i", "o", "n", "s", " ", "r", "e",
              "q", "u", "i", "r", "e", "d", " ", "b", "u", "t", " ", "r",
              "e", "t", "r", "i", "e", "v", "e", "d", "_", "a", "t", " ",
              "t", "i", "m", "e", "s", "t", "a", "m", "p", " ", "i", "s",
              " ", "m", "i", "s", "s", "i", "n", "g", ".">>
      [] OTHER -> << >>

\* "word in e.lower()" for an error message e
Names(msg, word) == Contains(word, Lower(MessageText(msg)))

Word_citations == <<"c", "i", "t", "a", "t", "i", "o", "n", "s">>
Word_retrieved_at == <<"r", "e", "t", "r", "i", "e", "v", "e", "d", "_", "a", "t">>

\* a string with a character that is not a blank
NonBlankStr(v) == v.t = "str" /\ \E i \in 1..Len(v.s) : v.s[i] # " "

\* an object with a non-empty citations list of non-blank strings and a
\* non-blank retrieved_at string
HasProvenance(p) ==
    /\ p.t = "obj"
    /\ {"citations", "retrieved_at"} \subseteq DOMAIN p.f
    /\ p.f.citations.t = "list"
    /\ p.f.citations.l # << >>
    /\ \A i \in 1..Len(p.f.citations.l) : NonBlankStr(p.f.citations.l[i])
    /\ NonBlankStr(p.f.retrieved_at)

\* C19: validate_output(payload, true) returns no error for an object with a
\* non-empty citations list of non-blank strings and a non-blank retrieved_at;
\* for an object without citations it returns an error that names citations,
\* for an object without retrieved_at an error that names retrieved_at; with
\* require_citations false every object gets no error; a payload that is not
\* an object gets exactly one error.
C19_ValidateOutput ==
    (fnOut.kind = "return") =>
        LET p == fnArgs.payload
            rc == fnArgs.require_citations
            errs == fnOut.errors
        IN /\ (rc /\ HasProvenance(p)) => errs = << >>
           /\ (rc /\ p.t = "obj" /\ "citations" \notin DOMAIN p.f) =>
                 \E i \in 1..Len(errs) : Names(errs[i], Word_citations)
           /\ (rc /\ p.t = "obj" /\ "retrieved_at" \notin DOMAIN p.f) =>
                 \E i \in 1..Len(errs) : Names(errs[i], Word_retrieved_at)
           /\ (~rc /\ p.t = "obj") => errs = << >>
           /\ (p.t # "obj") => Len(errs) = 1

\* C19 witness: an object with citations and without retrieved_at, validated
\* with require_citations true, gets the one error that names retrieved_at.
C19_Witness ==
    /\ fnOut.kind = "return"
    /\ fnArgs.require_citations
    /\ fnArgs.payload.t = "obj"
    /\ "citations" \in DOMAIN fnArgs.payload.f
    /\ "retrieved_at" \notin DOMAIN fnArgs.payload.f
    /\ Len(fnOut.errors) = 1
    /\ Names(fnOut.errors[1], Word_retrieved_at)

\* the rows of the catalog with the given id
RowsWithId(cat, id) == {i \in 1..Len(cat) : cat[i].id = id}

\* C20: after PUT /apps/{id} with a body, and after a bootstrap for every
\* manifest that AppCreate accepts, the catalog holds exactly one row with
\* that id and the row has the fields of the body (so the same body twice
\* gives the same row, a changed body gives the latest fields); no operation
\* of the API removes a row of the catalog.
C20_UpsertIdempotent ==
    [][/\ \A i \in 1..Len(catalog) : RowsWithId(catalog', catalog[i].id) # {}
       /\ (call'.kind = "upsert_app" /\ call'.app_id = call'.app_in.id) =>
             /\ Cardinality(RowsWithId(catalog', call'.app_id)) = 1
             /\ GetApp(catalog', call'.app_id) = Some(RowOf(call'.app_in))
       /\ (call'.kind = "bootstrap") =>
             \A k \in 1..Len(call'.manifests) :
                AppCreateValid(call'.manifests[k]) =>
                   /\ Cardinality(RowsWithId(catalog', call'.manifests[k].id)) = 1
                   /\ GetApp(catalog', call'.manifests[k].id)
                         = Some(RowOf(call'.manifests[k]))]_vars


(***************************************************************************)
(* Claims on the empty results and the ranking of recommend()              *)
(***************************************************************************)

\* the candidates of the call that pass the hard filters, as indices of rApps
Filtered == FilterIdx(rReq.constraints, rApps, 1)

\* the threshold that drops candidate rApps[i] in the scoring loop of the
\* call, "none" when the candidate survives
DropCause(i) ==
    LET required == _norm_capabilities(rReq.required_capabilities)
        cap == _capability_match(required, _norm_capabilities(rApps[i].capabilities))
    IN IF required # {} /\ cap < MIN_CAP_COVERAGE THEN "min_capability_coverage"
       ELSE IF rOut.call.rels[i] < MIN_RELEVANCE_SCORE THEN "min_relevance_score"
       ELSE "none"

\* the candidates that pass the hard filters and both soft thresholds
Survivors == {Filtered[j] : j \in {n \in 1..Len(Filtered) : DropCause(Filtered[n]) = "none"}}

\* the composite score the call computes for survivor rApps[i]
CompositeOf(i) ==
    ScoreOne(rReq, rApps[i], rOut.call.rels[i],
             _latency_score(rApps[i].latency_est_ms,
                            rReq.constraints.max_latency_ms).v).score

\* C23: when no candidate passes the hard filters, recommend() returns an
\* empty ranked list together with a non-empty list of reasons.
C23_NoMatchHasReasons ==
    (rOut.kind # "nocall" /\ Filtered = << >>) =>
        /\ rOut.kind = "ok"
        /\ rOut.recs = << >>
        /\ rOut.reasons # << >>

\* C24: when candidates pass the hard filters and none survives the soft
\* thresholds, recommend() returns an empty list with one reason, and the
\* reason names the threshold that dropped the candidates: the capability
\* coverage when all were dropped for coverage, the relevance when all were
\* dropped for relevance.
C24_ReasonNamesUnmetThreshold ==
    (rOut.kind = "ok" /\ Filtered # << >> /\ Survivors = {}) =>
        /\ rOut.recs = << >>
        /\ Len(rOut.reasons) = 1
        /\ (\A j \in 1..Len(Filtered) :
                DropCause(Filtered[j]) = "min_capability_coverage")
              => rOut.reasons[1] = "min_capability_coverage"
        /\ (\A j \in 1..Len(Filtered) :
                DropCause(Filtered[j]) = "min_relevance_score")
              => rOut.reasons[1] = "min_relevance_score"

\* C25: if candidates survive the thresholds and the highest composite score
\* among them is below MIN_TOTAL_SCORE, recommend() returns an empty list with
\* a reason; a non-empty list has a top entry of at least MIN_TOTAL_SCORE.
C25_TopScoreBar ==
    (rOut.kind = "ok") =>
        /\ (Survivors # {} /\ \A i \in Survivors : CompositeOf(i) < MIN_TOTAL_SCORE)
              => (rOut.recs = << >> /\ rOut.reasons # << >>)
        /\ (rOut.recs # << >>) => rOut.recs[1].score >= MIN_TOTAL_SCORE

\* C25 witness: a call whose survivors all score below MIN_TOTAL_SCORE and
\* that returned the empty list with the reason of the bar.
C25_Witness ==
    /\ rOut.kind = "ok"
    /\ Survivors # {}
    /\ \A i \in Survivors : CompositeOf(i) < MIN_TOTAL_SCORE
    /\ rOut.recs = << >>
    /\ rOut.reasons = <<"top_score_below_minimum">>

\* C26: the returned list has at most k entries, is in non-increasing order
\* of composite score, and holds the k highest-scoring survivors: every entry
\* is a survivor with its composite score, no survivor appears twice, the
\* list is as long as k and the survivors allow, and no survivor left out
\* scores strictly higher than a returned one.
C26_TopKDescending ==
    (rOut.kind = "ok" /\ rOut.recs # << >>) =>
        LET recs == rOut.recs
            ids == {recs[n].app_id : n \in 1..Len(recs)}
        IN /\ Len(recs) <= rOut.call.k
           /\ Len(recs) = Min(rOut.call.k, Cardinality(Survivors))
           /\ \A n \in 1..(Len(recs) - 1) : recs[n].score >= recs[n + 1].score
           /\ \A n \in 1..Len(recs) :
                 \E i \in Survivors : /\ rApps[i].id = recs[n].app_id
                                      /\ CompositeOf(i) = recs[n].score
           /\ Cardinality(ids) = Len(recs)
           /\ \A i \in Survivors :
                 rApps[i].id \notin ids =>
                    \A n \in 1..Len(recs) : CompositeOf(i) <= recs[n].score

\* C26 witness: a call with more survivors than k that returned k entries of
\* different scores, the first survivor of the input not being the best.
C26_Witness ==
    /\ rOut.kind = "ok"
    /\ Len(rOut.recs) = rOut.call.k
    /\ Len(rOut.recs) >= 2
    /\ Cardinality(Survivors) > rOut.call.k
    /\ rOut.recs[1].score > rOut.recs[2].score
    /\ \E i \in Survivors : /\ \A j \in Survivors : i <= j
                            /\ CompositeOf(i) < rOut.recs[1].score


(***************************************************************************)
(* Claim on the trust formula, under SpecTrust                             *)
(***************************************************************************)

\* the trust score the formula of the claim gives for the runs of one app
\* (the list is not empty): every run has a latency value, so the latency
\* score is the unconstrained curve at the mean latency
FormulaTrust(rows) ==
    LET total == Len(rows)
        I == 1..total
        success_rate == (Cardinality({i \in I : rows[i].ok}) * SCALE) \div total
        cited == {i \in I : rows[i].require_citations}
        citation_pass_rate ==
            IF cited = {} THEN success_rate
            ELSE (Cardinality({i \in cited : rows[i].ok}) * SCALE) \div Cardinality(cited)
        mean == SumSeq([i \in I |-> rows[i].latency_ms]) \div total
        curve == (500 * SCALE) \div (500 + Max(1, mean))
    IN Round4((5 * success_rate + 3 * citation_pass_rate + 2 * curve) \div 10)

\* C22: for an app with at least one run, trust_score = 0.5*success_rate +
\* 0.3*citation_pass_rate + 0.2*latency_score, with the citation pass rate
\* taken among the runs that required citations (the success rate if there
\* are none) and the latency score being the unconstrained latency curve at
\* the mean latency whenever a run has a latency value.
C22_TrustFormula ==
    (fnOut.kind = "ok") =>
        \A app_id \in DOMAIN fnOut.scores :
            fnOut.scores[app_id].trust_score = FormulaTrust(RunsOf(fnArgs, app_id))


(***************************************************************************)
(* Claim on the stages of sales_recommendation()                           *)
(***************************************************************************)

\* the LLM call that a step issues is allowed by the stage order: the
\* primary prompt first, the strict retry only after a primary output that
\* did not parse, the schema repair only after a retry that gave no parsed
\* payload, the sales repair once and only after _parse_sales_payload
\* refused a parsed payload
StageOrder ==
    (sCalls' # sCalls) =>
        /\ Len(sCalls') = Len(sCalls) + 1
        /\ SubSeq(sCalls', 1, Len(sCalls)) = sCalls
        /\ LET stage == sCalls'[Len(sCalls')] IN
           CASE stage = "primary" -> sCalls = << >>
             [] stage = "strict_retry" ->
                    sCalls = <<"primary">> /\ IsNone(sPayload) /\ sLastErr = ""
             [] stage = "repair_json" ->
                    sCalls = <<"primary", "strict_retry">>
                    /\ IsNone(sPayload) /\ sLastErr = ""
             [] stage = "repair_sales" ->
                    /\ \A n \in 1..Len(sCalls) : sCalls[n] # "repair_sales"
                    /\ sLastErr # ""
                    /\ sPc' = "done"
             [] OTHER -> FALSE

\* the number of stages that may still follow the position pc
StagesLeft(pc) ==
    CASE pc = "primary" -> 5
      [] pc = "retry" -> 4
      [] pc = "repair_json" -> 3
      [] pc = "parse" -> 2
      [] pc = "repair_sales" -> 1
      [] pc = "done" -> 0

\* C27: sales_recommendation terminates after at most four LLM calls, issued
\* in the order primary prompt, strict retry, schema repair, sales repair,
\* each stage only under its condition: every step issues a call the order
\* allows and moves to a later stage, so no behaviour has more than five
\* steps, and the end, and only the end, holds a result or a raise.
C27_StagesBoundedAndOrdered ==
    /\ [][StageOrder /\ StagesLeft(sPc') < StagesLeft(sPc)]_vars
    /\ [](Len(sCalls) <= 4)
    /\ []((sPc = "done") <=> (sOut.kind \in {"return", "raise"}))

\* C27 witness: a call that went through all four stages and ended.
C27_Witness ==
    /\ sCalls = <<"primary", "strict_retry", "repair_json", "repair_sales">>
    /\ sPc = "done"
    /\ sOut.kind \in {"return", "raise"}


(***************************************************************************)
(* Specification of the LLM client: one call of ollama_generate under a    *)
(* behaviour of the backend; fnArgs is the behaviour                       *)
(***************************************************************************)
InitOllama ==
    /\ fnArgs \in LLMBehaviours
    /\ fnOut = NoCall
    /\ RouterIdle
    /\ SalesIdle
    /\ ApiIdle
    /\ RateIdle
    /\ CacheIdle
    /\ AuthIdle

OllamaGenerate ==
    /\ fnOut = NoCall
    /\ fnOut' = ollama_generate(fnArgs)
    /\ UNCHANGED fnArgs
    /\ UNCHANGED <<routerVars, salesVars, apiVars, rlVars, cacheVars, authVars>>

NextOllama == OllamaGenerate

SpecOllama == InitOllama /\ [][NextOllama]_vars

\* C28: ollama_generate signals an unreachable backend with an error kind
\* (the exception class) that differs from the error kind it raises when the
\* request times out.
C28_UnreachableDistinctFromTimeout ==
    (fnOut.kind # "nocall" /\ fnArgs.b = "connection_error") =>
        /\ fnOut.kind = "raise"
        /\ fnOut.exc # ollama_generate([b |-> "timeout"]).exc


(***************************************************************************)
(* core/cache.py: Redis when available, in-memory fallback.  The module    *)
(* global _redis_client is TRUE when it holds a client.  A store maps each *)
(* key to an optional entry.                                               *)
(***************************************************************************)
MaxCacheCalls == 3     \* calls of cache_get and cache_set in one behaviour
MaxClock == 4          \* last instant of the clock, in seconds

CacheKeys == {"shop:a", "shop:b"}

\* the cached values: dicts of JSON types, as ShopResponse.model_dump() gives
CacheValues == {"res1", "res2"}

TtlValues == {0, 2, 4}

EmptyStore == [k \in CacheKeys |-> NoneV]

\* json.dumps(value, default=str, ensure_ascii=False) and json.loads on the
\* text it gives
json_dumps(value) == <<"json", value>>
json_loads(raw) == raw[2]

\* _init_redis: whether Redis is taken as available, and _redis_client after
\* the call.  from_url() builds the client without connecting, so the global
\* is set before ping() and stays set when ping() raises.
_init_redis(client, url, up) ==
    IF client THEN [ok |-> TRUE, client |-> TRUE]
    ELSE IF ~url THEN [ok |-> FALSE, client |-> FALSE]
    ELSE [ok |-> up, client |-> TRUE]

\* GET on the server at instant t: a key set by SETEX is gone after its ttl
RedisGet(data, key, t) ==
    IF IsNone(data[key]) \/ Val(data[key]).expires_at <= t THEN NoneV
    ELSE Some(Val(data[key]).raw)

\* cache_get(key) at instant t: the value returned (None: << >>) and the
\* globals after the call.  A Redis miss or a Redis exception falls through
\* to the in-memory store.
cache_get(client, mem, url, up, data, key, t) ==
    LET init == _init_redis(client, url, up)
        raw == IF init.ok /\ up THEN RedisGet(data, key, t) ELSE NoneV
        entry == mem[key]
    IN IF ~IsNone(raw)
       THEN [ret |-> Some(json_loads(Val(raw))), client |-> init.client, mem |-> mem]
       ELSE IF IsNone(entry) \/ Val(entry).expires_at <= t
            THEN [ret |-> NoneV, client |-> init.client,
                  mem |-> [mem EXCEPT ![key] = NoneV]]
            ELSE [ret |-> Some(Val(entry).value), client |-> init.client, mem |-> mem]

\* cache_set(key, value, ttl_seconds) at instant t: the globals and the
\* server's keys after the call.  SETEX that raises falls through to the
\* in-memory store.
cache_set(client, mem, url, up, data, key, value, ttl_seconds, t) ==
    IF ttl_seconds <= 0 THEN [client |-> client, mem |-> mem, data |-> data]
    ELSE LET init == _init_redis(client, url, up) IN
         IF init.ok /\ up
         THEN [client |-> init.client, mem |-> mem,
               data |-> [data EXCEPT ![key] =
                            Some([raw |-> json_dumps(value),
                                  expires_at |-> t + ttl_seconds])]]
         ELSE [client |-> init.client,
               mem |-> [mem EXCEPT ![key] =
                           Some([value |-> value, expires_at |-> t + ttl_seconds])],
               data |-> data]

(***************************************************************************)
(* Specification of the cache: calls of cache_set and cache_get while time *)
(* passes and the Redis server comes and goes                              *)
(***************************************************************************)
InitCache ==
    /\ _redis_client = FALSE
    /\ _memory_store = EmptyStore
    /\ redisUrl \in BOOLEAN
    /\ redisUp \in BOOLEAN
    /\ redisData = EmptyStore
    /\ clock = 0
    /\ lastSet = EmptyStore
    /\ cacheCall = NoCall
    /\ cacheOut = NoCall
    /\ RouterIdle
    /\ SalesIdle
    /\ ApiIdle
    /\ RateIdle
    /\ FnIdle
    /\ AuthIdle

CacheCalls == IF cacheCall.kind = "nocall" THEN 0 ELSE cacheCall.n

CacheSet ==
    /\ CacheCalls < MaxCacheCalls
    /\ \E key \in CacheKeys, value \in CacheValues, ttl \in TtlValues :
          LET o == cache_set(_redis_client, _memory_store, redisUrl, redisUp,
                             redisData, key, value, ttl, clock) IN
          /\ _redis_client' = o.client
          /\ _memory_store' = o.mem
          /\ redisData' = o.data
          /\ lastSet' = IF ttl > 0
                        THEN [lastSet EXCEPT ![key] =
                                 Some([value |-> value, at |-> clock, ttl |-> ttl])]
                        ELSE lastSet
          /\ cacheCall' = [kind |-> "set", key |-> key, value |-> value,
                           ttl |-> ttl, at |-> clock, n |-> CacheCalls + 1]
          /\ cacheOut' = [kind |-> "return", ret |-> NoneV]
    /\ UNCHANGED <<redisUrl, redisUp, clock>>
    /\ UNCHANGED <<routerVars, salesVars, apiVars, rlVars, fnVars, authVars>>

CacheGet ==
    /\ CacheCalls < MaxCacheCalls
    /\ \E key \in CacheKeys :
          LET o == cache_get(_redis_client, _memory_store, redisUrl, redisUp,
                             redisData, key, clock) IN
          /\ _redis_client' = o.client
          /\ _memory_store' = o.mem
          /\ cacheCall' = [kind |-> "get", key |-> key, at |-> clock,
                           n |-> CacheCalls + 1]
          /\ cacheOut' = [kind |-> "return", ret |-> o.ret]
    /\ UNCHANGED <<redisUrl, redisUp, redisData, clock, lastSet>>
    /\ UNCHANGED <<routerVars, salesVars, apiVars, rlVars, fnVars, authVars>>

\* one second passes
CacheTick ==
    /\ clock < MaxClock
    /\ clock' = clock + 1
    /\ UNCHANGED <<_redis_client, _memory_store, redisUrl, redisUp, redisData,
                   lastSet, cacheCall, cacheOut>>
    /\ UNCHANGED <<routerVars, salesVars, apiVars, rlVars, fnVars, authVars>>

\* the configured Redis server becomes unreachable or reachable again
RedisFlip ==
    /\ redisUrl
    /\ CacheCalls < MaxCacheCalls
    /\ redisUp' = ~redisUp
    /\ UNCHANGED <<_redis_client, _memory_store, redisUrl, redisData, clock,
                   lastSet, cacheCall, cacheOut>>
    /\ UNCHANGED <<routerVars, salesVars, apiVars, rlVars, fnVars, authVars>>

NextCache == CacheSet \/ CacheGet \/ CacheTick \/ RedisFlip

SpecCache == InitCache /\ [][NextCache]_vars

\* C30: for any sequence of cache_set and cache_get calls, with the Redis
\* server becoming available or failing between calls, cache_get(key) returns
\* None or the value of the most recent cache_set(key, value, ttl > 0), and
\* only while the TTL of that call has not elapsed; cache_set with ttl <= 0
\* stores nothing.
C30_CacheGetFresh ==
    /\ []((cacheCall.kind = "get" /\ ~IsNone(cacheOut.ret)) =>
            LET last == lastSet[cacheCall.key] IN
            /\ ~IsNone(last)
            /\ Val(cacheOut.ret) = Val(last).value
            /\ cacheCall.at < Val(last).at + Val(last).ttl)
    /\ [][(cacheCall' # cacheCall /\ cacheCall'.kind = "set" /\ cacheCall'.ttl <= 0)
            => UNCHANGED <<_memory_store, redisData, lastSet>>]_vars


(***************************************************************************)
(* API keys: auth/dependencies.py and apps/api/auth_routes.py.  A row of   *)
(* api_keys holds id, user_id, key_hash, is_active and last_used (FALSE:   *)
(* never used; the instant itself is not modelled).                        *)
(***************************************************************************)
MaxKeys == 2           \* rows of table api_keys
MaxAuthCalls == 3      \* requests in one behaviour

\* the rows of table users: signup creates active users and nothing
\* deactivates one
UsersTable == <<[id |-> 1, is_active |-> TRUE], [id |-> 2, is_active |-> TRUE]>>

\* APIKey.generate_key for the n-th row: a fresh random string
generate_key(n) == <<"axm", n>>

\* APIKey.hash_key: sha256 of the key, as hex
hash_key(key) == <<"sha256", key>>

\* db.query(User).filter(User.id == user_id).first() and its is_active
ActiveUser(user_id) ==
    \E i \in 1..Len(UsersTable) :
        UsersTable[i].id = user_id /\ UsersTable[i].is_active

\* the credentials of a request: a valid JWT of a user (None: no Authorization
\* header) and the X-API-Key header (None: absent)
Credentials ==
    [bearer : {NoneV, Some(1), Some(2)},
     api_key : {NoneV} \cup {Some(generate_key(n)) : n \in 1..MaxKeys}]

\* get_current_user_optional: the user id (None: not authenticated), the row
\* of the API key the user was authenticated through (None: not through a
\* key), and the table after the commit of last_used
get_current_user_optional(enabled, keys, cred) ==
    LET match == IF IsNone(cred.api_key) THEN {}
                 ELSE {i \in 1..Len(keys) :
                          /\ keys[i].key_hash = hash_key(Val(cred.api_key))
                          /\ keys[i].is_active}
        i == CHOOSE n \in match : \A m \in match : n <= m
        used == IF match = {} THEN keys ELSE [keys EXCEPT ![i].last_used = TRUE]
    IN IF ~enabled THEN [user |-> NoneV, via |-> NoneV, keys |-> keys]
       ELSE IF match # {} /\ ActiveUser(keys[i].user_id)
            THEN [user |-> Some(keys[i].user_id), via |-> Some(i), keys |-> used]
       ELSE IF ~IsNone(cred.bearer) /\ ActiveUser(Val(cred.bearer))
            THEN [user |-> cred.bearer, via |-> NoneV, keys |-> used]
       ELSE [user |-> NoneV, via |-> NoneV, keys |-> used]

\* get_current_user: the anonymous user 0 when AUTH_ENABLED is off, 401
\* without valid credentials
get_current_user(enabled, keys, cred) ==
    LET opt == get_current_user_optional(enabled, keys, cred) IN
    IF ~enabled THEN [kind |-> "ok", user |-> 0, via |-> NoneV, keys |-> opt.keys]
    ELSE IF IsNone(opt.user)
         THEN [kind |-> "raise", status |-> 401, via |-> NoneV, keys |-> opt.keys]
         ELSE [kind |-> "ok", user |-> Val(opt.user), via |-> opt.via, keys |-> opt.keys]

\* GET /auth/me
get_current_user_info(enabled, keys, cred) ==
    LET cu == get_current_user(enabled, keys, cred) IN
    IF cu.kind = "raise"
    THEN [resp |-> [kind |-> "raise", status |-> 401, via |-> NoneV], keys |-> cu.keys]
    ELSE [resp |-> [kind |-> "return", status |-> 200, via |-> cu.via,
                    user |-> cu.user],
          keys |-> cu.keys]

\* POST /auth/api-keys; fk tells whether the database enforces the foreign
\* key api_keys.user_id -> users.id (the anonymous user 0 has no row)
create_api_key(enabled, keys, cred, fk) ==
    LET cu == get_current_user(enabled, keys, cred) IN
    IF cu.kind = "raise"
    THEN [resp |-> [kind |-> "raise", status |-> 401, via |-> NoneV], keys |-> cu.keys]
    ELSE IF fk /\ ~ActiveUser(cu.user)
    THEN [resp |-> [kind |-> "raise", status |-> 500, via |-> cu.via], keys |-> cu.keys]
    ELSE LET id == Len(cu.keys) + 1 IN
         [resp |-> [kind |-> "return", status |-> 201, via |-> cu.via, id |-> id,
                    key |-> generate_key(id)],
          keys |-> Append(cu.keys,
                      [id |-> id, user_id |-> cu.user,
                       key_hash |-> hash_key(generate_key(id)),
                       is_active |-> TRUE, last_used |-> FALSE])]

\* mutant of revoke_api_key: the row is deleted
revoke_api_key_DeletesRow(enabled, keys, cred, key_id) ==
    LET cu == get_current_user(enabled, keys, cred)
        own == {i \in 1..Len(cu.keys) :
                   cu.keys[i].id = key_id /\ cu.keys[i].user_id = cu.user}
    IN IF cu.kind = "raise"
       THEN [resp |-> [kind |-> "raise", status |-> 401, via |-> NoneV], keys |-> cu.keys]
       ELSE IF own = {}
       THEN [resp |-> [kind |-> "raise", status |-> 404, via |-> cu.via], keys |-> cu.keys]
       ELSE [resp |-> [kind |-> "return", status |-> 204, via |-> cu.via],
             keys |-> SelectSeq(cu.keys, LAMBDA r : r.id # key_id)]

\* DELETE /auth/api-keys/{key_id}
revoke_api_key(enabled, keys, cred, key_id) ==
    LET cu == get_current_user(enabled, keys, cred)
        own == {i \in 1..Len(cu.keys) :
                   cu.keys[i].id = key_id /\ cu.keys[i].user_id = cu.user}
    IN IF cu.kind = "raise"
       THEN [resp |-> [kind |-> "raise", status |-> 401, via |-> NoneV], keys |-> cu.keys]
       ELSE IF own = {}
       THEN [resp |-> [kind |-> "raise", status |-> 404, via |-> cu.via], keys |-> cu.keys]
       ELSE [resp |-> [kind |-> "return", status |-> 204, via |-> cu.via],
             keys |-> [i \in 1..Len(cu.keys) |->
                          IF i \in own THEN [cu.keys[i] EXCEPT !.is_active = FALSE]
                          ELSE cu.keys[i]]]

(***************************************************************************)
(* Specification of the API keys: requests to the endpoints that create,   *)
(* revoke and use API keys                                                 *)
(***************************************************************************)
InitAuth ==
    /\ authEnabled \in BOOLEAN
    /\ catalog = << >>
    /\ runs = << >>
    /\ usage = 0
    /\ messages = << >>
    /\ nCalls = 0
    /\ call = NoCall
    /\ resp = NoCall
    /\ api_keys = << >>
    /\ akCall = NoCall
    /\ akResp = NoCall
    /\ RouterIdle
    /\ SalesIdle
    /\ RateIdle
    /\ FnIdle
    /\ CacheIdle

AuthCalls == IF akCall.kind = "nocall" THEN 0 ELSE akCall.n

CreateApiKey ==
    /\ AuthCalls < MaxAuthCalls
    /\ Len(api_keys) < MaxKeys
    /\ \E cred \in Credentials, fk \in BOOLEAN :
          LET o == create_api_key(authEnabled, api_keys, cred, fk) IN
          /\ api_keys' = o.keys
          /\ akResp' = o.resp
          /\ akCall' = [kind |-> "create", cred |-> cred, n |-> AuthCalls + 1]
    /\ UNCHANGED <<routerVars, salesVars, apiVars, rlVars, fnVars, cacheVars>>

RevokeApiKey ==
    /\ AuthCalls < MaxAuthCalls
    /\ \E cred \in Credentials, key_id \in 1..(MaxKeys + 1) :
          LET o == revoke_api_key(authEnabled, api_keys, cred, key_id) IN
          /\ api_keys' = o.keys
          /\ akResp' = o.resp
          /\ akCall' = [kind |-> "revoke", cred |-> cred, key_id |-> key_id,
                        n |-> AuthCalls + 1]
    /\ UNCHANGED <<routerVars, salesVars, apiVars, rlVars, fnVars, cacheVars>>

GetMe ==
    /\ AuthCalls < MaxAuthCalls
    /\ \E cred \in Credentials :
          LET o == get_current_user_info(authEnabled, api_keys, cred) IN
          /\ api_keys' = o.keys
          /\ akResp' = o.resp
          /\ akCall' = [kind |-> "me", cred |-> cred, n |-> AuthCalls + 1]
    /\ UNCHANGED <<routerVars, salesVars, apiVars, rlVars, fnVars, cacheVars>>

NextAuth == CreateApiKey \/ RevokeApiKey \/ GetMe

SpecAuth == InitAuth /\ [][NextAuth]_vars


(***************************************************************************)
(* Claim on the revocation of API keys, under SpecAuth                     *)
(***************************************************************************)

\* the columns of a key row that tell which key it is, whose, and whether it
\* is active
KeyStatus(row) ==
    [id |-> row.id, user_id |-> row.user_id, key_hash |-> row.key_hash,
     is_active |-> row.is_active]

\* the step is a request DELETE /auth/api-keys/{key_id}
RevokeStep == akCall' # akCall /\ akCall'.kind = "revoke"

\* the user the request of the step is made by, as get_current_user sees it
Requester == get_current_user(authEnabled, api_keys, akCall'.cred)

\* the request of the step names a key of its requester
NamesOwnKey ==
    \E i \in 1..Len(api_keys) :
        api_keys[i].id = akCall'.key_id /\ api_keys[i].user_id = Requester.user

\* a DELETE that succeeds leaves the row in place, inactive, and no row is
\* added or removed
RevokeDeactivates ==
    (RevokeStep /\ akResp'.status = 204) =>
        /\ Requester.kind = "ok" /\ NamesOwnKey
        /\ Len(api_keys') = Len(api_keys)
        /\ \A i \in 1..Len(api_keys) :
              KeyStatus(api_keys'[i]) =
                 IF api_keys[i].id = akCall'.key_id
                 THEN [KeyStatus(api_keys[i]) EXCEPT !.is_active = FALSE]
                 ELSE KeyStatus(api_keys[i])

\* no step removes or reactivates an inactive key
StaysRevoked ==
    \A i \in 1..Len(api_keys) :
        (~api_keys[i].is_active) =>
            /\ i <= Len(api_keys')
            /\ KeyStatus(api_keys'[i]) = KeyStatus(api_keys[i])

\* a request is authenticated through a key only if the key it presents was
\* active; a request that presents only an inactive key is refused with 401
RevokedKeyRefused ==
    (akCall' # akCall) =>
        /\ (~IsNone(akResp'.via)) =>
              /\ ~IsNone(akCall'.cred.api_key)
              /\ api_keys[Val(akResp'.via)].is_active
              /\ api_keys[Val(akResp'.via)].key_hash =
                    hash_key(Val(akCall'.cred.api_key))
        /\ (/\ authEnabled
            /\ IsNone(akCall'.cred.bearer)
            /\ ~IsNone(akCall'.cred.api_key)
            /\ \E i \in 1..Len(api_keys) :
                  /\ api_keys[i].key_hash = hash_key(Val(akCall'.cred.api_key))
                  /\ ~api_keys[i].is_active)
              => akResp'.status = 401

\* an authenticated DELETE for a key id that does not exist or belongs to
\* another user
ForeignRevoke == RevokeStep /\ Requester.kind = "ok" /\ ~NamesOwnKey

\* C21 as stated: a successful DELETE deactivates the key without deleting
\* it, no later step reactivates it or authenticates a request through it,
\* and a DELETE for a key id that does not exist or belongs to another user
\* returns 404 and changes no key.
C21_RevokeChangesNoKey ==
    [][/\ RevokeDeactivates
       /\ StaysRevoked
       /\ RevokedKeyRefused
       /\ ForeignRevoke => (akResp'.status = 404 /\ api_keys' = api_keys)]_vars

\* C21, amended: a successful DELETE deactivates the key without deleting
\* it, no later step reactivates it or authenticates a request through it,
\* and a DELETE for a key id that does not exist or belongs to another user
\* returns 404 and changes no key's id, owner, hash or is_active; the only
\* column written is last_used of the key the request was authenticated
\* through.
C21_RevokeDeactivatesForGood ==
    [][/\ RevokeDeactivates
       /\ StaysRevoked
       /\ RevokedKeyRefused
       /\ ForeignRevoke =>
             /\ akResp'.status = 404
             /\ Len(api_keys') = Len(api_keys)
             /\ \A i \in 1..Len(api_keys) :
                   /\ KeyStatus(api_keys'[i]) = KeyStatus(api_keys[i])
                   /\ (api_keys'[i] # api_keys[i]) => akResp'.via = Some(i)]_vars

\* C21 witness: a key was revoked and a later request that presented it, and
\* nothing else, was refused with 401; the row is still there, inactive.
C21_Witness ==
    /\ authEnabled
    /\ akCall.kind = "me"
    /\ IsNone(akCall.cred.bearer)
    /\ ~IsNone(akCall.cred.api_key)
    /\ akResp.status = 401
    /\ \E i \in 1..Len(api_keys) :
          /\ api_keys[i].key_hash = hash_key(Val(akCall.cred.api_key))
          /\ ~api_keys[i].is_active


(***************************************************************************)
(* Specification of /shop and /execute behind the rate limiter: each       *)
(* request runs the dependency check_user_rate_limit, which calls          *)
(* check_rate_limit(db, current_user), and then the handler                *)
(***************************************************************************)

\* the user get_current_user gives to check_user_rate_limit: the anonymous
\* user 0 when AUTH_ENABLED is off; both are of tier "free"
GateUser == [id |-> CurrentUserId, tier |-> "free"]

InitGate ==
    /\ authEnabled \in BOOLEAN
    /\ catalog = Catalog
    /\ runs = << >>
    /\ usage = 0
    /\ messages = << >>
    /\ nCalls = 0
    /\ call = NoCall
    /\ resp = NoCall
    /\ settings \in RateSettings
    /\ now = 0
    /\ rate_limits = << >>
    /\ admitted = << >>
    /\ rlCall = NoCall
    /\ rlResp = NoCall
    /\ RouterIdle
    /\ SalesIdle
    /\ FnIdle
    /\ CacheIdle
    /\ AuthIdle

\* what check_user_rate_limit leaves behind for a request at instant now
GateCheck(r) ==
    /\ rate_limits' = r.table
    /\ rlResp' = r.resp
    /\ rlCall' = [kind |-> "check", user |-> GateUser, at |-> now, n |-> nCalls + 1]
    /\ admitted' = IF r.resp.kind = "return"
                   THEN Append(admitted, [user |-> GateUser, at |-> now])
                   ELSE admitted

\* POST /execute: the handler runs only when the dependency returned
GatedExecute ==
    /\ nCalls < MaxCalls
    /\ \E req \in ExecuteRequests, script \in ProviderScripts,
          latency_ms \in LatencyValues :
          LET r == check_rate_limit(settings, rate_limits, GateUser, now)
              o == execute(catalog, runs, messages, req, script, latency_ms) IN
          /\ GateCheck(r)
          /\ IF r.resp.kind = "raise"
             THEN /\ resp' = r.resp
                  /\ call' = [kind |-> "execute", req |-> req, http |-> << >>]
                  /\ UNCHANGED <<usage, runs, messages>>
             ELSE /\ usage' = LogUsage(CurrentUserId)
                  /\ runs' = o.runs
                  /\ messages' = o.messages
                  /\ resp' = o.resp
                  /\ call' = [kind |-> "execute", req |-> req, http |-> o.http]
    /\ nCalls' = nCalls + 1
    /\ UNCHANGED <<authEnabled, catalog, settings, now>>
    /\ UNCHANGED <<routerVars, salesVars, fnVars, cacheVars, authVars>>

\* POST /shop: the handler runs only when the dependency returned
GatedShop ==
    /\ nCalls < MaxCalls
    /\ \E req \in ShopRequests, rels \in ShopRels :
          LET r == check_rate_limit(settings, rate_limits, GateUser, now) IN
          /\ GateCheck(r)
          /\ IF r.resp.kind = "raise"
             THEN /\ resp' = r.resp
                  /\ UNCHANGED usage
             ELSE /\ usage' = LogUsage(CurrentUserId)
                  /\ resp' = shop(catalog, runs, req, rels)
          /\ call' = [kind |-> "shop", req |-> req, rels |-> rels,
                      apps |-> ShopApps(catalog, runs)]
    /\ nCalls' = nCalls + 1
    /\ UNCHANGED <<authEnabled, catalog, runs, messages, settings, now>>
    /\ UNCHANGED <<routerVars, salesVars, fnVars, cacheVars, authVars>>

\* time passes between two requests
GateTick ==
    /\ nCalls < MaxCalls
    /\ \E d \in Advances :
          /\ now + d <= MaxTime
          /\ now' = now + d
    /\ UNCHANGED <<settings, rate_limits, admitted, rlCall, rlResp>>
    /\ UNCHANGED <<routerVars, salesVars, apiVars, fnVars, cacheVars, authVars>>

NextGate == GatedExecute \/ GatedShop \/ GateTick

SpecGate == InitGate /\ [][NextGate]_vars

\* the request of the step finds its user at the limit: a record of the
\* user in the current window whose request_count has reached the tier limit
OverLimit ==
    /\ settings.RATE_LIMIT_ENABLED
    /\ LET rec == FirstRecord(rate_limits, GateUser, "global",
                              [at |-> now - WindowMinutes, aware |-> TRUE])
       IN /\ ~IsNone(rec)
          /\ rate_limits[Val(rec)].request_count >=
                TierLimit(settings, GateUser.tier)

\* what a rejected request must leave alone: the rate-limit rows with their
\* request_count, the usage records, the runs, the conversation messages,
\* the cache, and the router's and the sales agent's state
RejectedFrame ==
    /\ UNCHANGED <<rate_limits, usage, runs, messages, catalog>>
    /\ UNCHANGED <<cacheVars, routerVars, salesVars>>

====
